---- MODULE Spec2Model ----
(***************************************************************************)
(* Model of the PDFium bridge of src/crate/library.rs: the handle table    *)
(* (handles, next_handle, doc_data), the open/close/resolve operations     *)
(* built on it, and the two-phase "query size, then fill" buffer protocol  *)
(* at each of its call sites.  The native library is the environment: it   *)
(* answers every call with a nondeterministically chosen value, and the    *)
(* model records the calls the bridge makes to it.                         *)
(***************************************************************************)
EXTENDS Integers, Sequences, FiniteSets, TLC

\* ------------------------------------------------------------------ bounds
\* Largest handle value the model issues (the counter itself is a u32).
MaxHandle == 3
\* Largest size the native library reports to a size query.
MaxSize == 4
\* Largest error code FPDF_GetLastError returns in the model (codes 0 .. MaxErrCode).
MaxErrCode == 1
\* Most links the native enumerator yields for one page.
MaxLinks == 2
\* Most bookmarks of a document outline.
MaxNodes == 2

Kinds == {"Document", "Page", "TextPage"}
\* Handle values a caller passes: 0 is never issued, the others are issued in turn.
HandleArgs == 0 .. MaxHandle
Passwords == {"none", "valid", "interior_nul"}

VARIABLES
    handles,      \* HashMap<u32, HandleEntry>: handle -> [kind, ref]
    next_handle,  \* u32 counter of alloc_handle
    doc_data,     \* HashMap<u32, Vec<u8>>: handle -> retained byte buffer
    native,       \* native objects created so far: ref -> [kind, parent, open, data]
    calls,        \* native calls (and buffer releases) made by the last operation, in order
    result,       \* what the last operation returned
    issued,       \* history: every handle an open operation returned, in order
    closed,       \* history: handles on which the close of their own kind was called
    library,      \* the PdfiumLibrary value the caller holds: whether there is one, and
                  \* its optional symbol text_get_text_render_mode (Some or None)
    inner         \* NativePdfium.inner, the RefCell around the library: for each caller
                  \* the call it is in, the borrow guard it holds and its local variables

vars == <<handles, next_handle, doc_data, native, calls, result, issued, closed, library, inner>>

\* ------------------------------------------------------------ native calls
\* One entry of the call log: the native function, the native reference it
\* was given, the size in bytes of the output buffer handed over (-1 for a
\* null pointer), the capacity argument, and the value it returned.
Call(fn, ref, buf, cap, ret) ==
    [fn |-> fn, ref |-> ref, buf |-> buf, cap |-> cap, ret |-> ret]

\* Dropping the Vec<u8> kept in doc_data under handle h.
ReleaseBuffer(h) == Call("doc_data.remove", h, -1, 0, 0)

NoCalls == << >>

\* ----------------------------------------------------------------- results
NoHandle == -1

\* What an operation returned: Ok(value) or Err(message).  code is the number
\* formatted into the message (-1 when there is none).  cause is bookkeeping
\* of the model, not part of the returned value: for an error raised by the
\* handle lookup it records what was wrong with the handle in the table.
Ok(op, h, value) ==
    [op |-> op, handle |-> h, status |-> "ok", err |-> "", code |-> -1,
     value |-> value, cause |-> ""]

Err(op, h, msg) ==
    [op |-> op, handle |-> h, status |-> "err", err |-> msg, code |-> -1,
     value |-> 0, cause |-> ""]

ErrCode(op, h, msg, code) ==
    [op |-> op, handle |-> h, status |-> "err", err |-> msg, code |-> code,
     value |-> 0, cause |-> ""]

\* --------------------------------------------------------- the handle table
\* self.handles.get(&h)
Present(h) == h \in DOMAIN handles

IsKind(h, kind) == Present(h) /\ handles[h].kind = kind

\* The error of a failed handle lookup, with what the table held for h.
HandleErr(op, h, msg) ==
    [op |-> op, handle |-> h, status |-> "err", err |-> msg, code |-> -1,
     value |-> 0, cause |-> IF Present(h) THEN "wrong_kind" ELSE "not_found"]

\* self.handles.remove(&h): the table without h.
HandlesRemove_Keep(h) == handles

HandlesRemove(h) == [k \in (DOMAIN handles) \ {h} |-> handles[k]]

\* The handle value alloc_handle returns.
AllocHandle_ReuseFreed ==
    IF \E k \in 1 .. MaxHandle : k \notin DOMAIN handles
    THEN CHOOSE k \in 1 .. MaxHandle :
            /\ k \notin DOMAIN handles
            /\ \A j \in 1 .. MaxHandle : j \notin DOMAIN handles => k <= j
    ELSE next_handle

AllocHandle == next_handle

\* next_handle after alloc_handle: self.next_handle += 1.  CanAlloc keeps the
\* counter far below the u32 limit, so the addition never overflows here.
NextAfterAlloc == next_handle + 1

\* The native reference the library hands out next.
NewRef == Cardinality(DOMAIN native) + 1

\* The cap on the counter: the model stops opening at MaxHandle.
CanAlloc == next_handle <= MaxHandle

\* A PdfiumLibrary value as load returns it, with its optional symbol
\* resolved or not; and the caller that holds none.
Library(render_mode) == [loaded |-> TRUE, text_get_text_render_mode |-> render_mode]
NoLibrary == [loaded |-> FALSE, text_get_text_render_mode |-> FALSE]

\* The callers that share one NativePdfium, and a caller that is in no call:
\* it holds no borrow guard, and its local variables are unset.
Callers == {1, 2}
Idle ==
    [pc |-> "idle", op |-> "", h |-> 0, guard |-> "none", handle |-> 0, ref |-> 0,
     calls |-> << >>]
NoCaller == [c \in Callers |-> Idle]

\* ---------------------------------------------------------------------------
\* The state after PdfiumLibrary::load returned a library with all its symbols.
Init ==
    /\ handles = << >>
    /\ next_handle = 1
    /\ doc_data = << >>
    /\ native = << >>
    /\ calls = NoCalls
    /\ result = Ok("load", NoHandle, 0)
    /\ issued = << >>
    /\ closed = {}
    /\ library = Library(TRUE)
    /\ inner = NoCaller


\* self.handles.insert(handle, entry)
HandlesInsert(h, entry) ==
    [k \in (DOMAIN handles) \cup {h} |-> IF k = h THEN entry ELSE handles[k]]

\* A native object the library creates: its kind, the object it was loaded
\* from (0 for none), whether its native close has not been called yet, and
\* the buffer it reads from (0 for none).
NativeObj(kind, parent, data) ==
    [kind |-> kind, parent |-> parent, open |-> TRUE, data |-> data]

NativeCreate(kind, parent, data) ==
    [r \in (DOMAIN native) \cup {NewRef} |->
        IF r = NewRef THEN NativeObj(kind, parent, data) ELSE native[r]]

\* The native close of object r has been called.
NativeClose(r) == [native EXCEPT ![r].open = FALSE]

\* alloc_handle: issue the next handle for a new entry.
alloc_handle(kind, ref, via) ==
    /\ handles' = HandlesInsert(AllocHandle, [kind |-> kind, ref |-> ref])
    /\ next_handle' = NextAfterAlloc
    /\ issued' = Append(issued, [handle |-> AllocHandle, kind |-> kind, ref |-> ref, via |-> via])

\* --------------------------------------------------------------- documents
\* self.doc_data.insert(handle, data_copy)
DocDataInsert_Dropped(h, d) == doc_data

DocDataInsert(h, d) ==
    [k \in (DOMAIN doc_data) \cup {h} |-> IF k = h THEN d ELSE doc_data[k]]

\* self.doc_data.remove(&handle)
DocDataRemove(h) == [k \in (DOMAIN doc_data) \ {h} |-> doc_data[k]]

\* The error load_document returns when FPDF_LoadMemDocument returns null.
LoadDocumentFailure_NoCode(code) ==
    Err("load_document", NoHandle, "Failed to load document")

LoadDocumentFailure(code) ==
    ErrCode("load_document", NoHandle, "Failed to load document, error code: ", code)

\* The copy load_document makes of the caller's bytes (data.to_vec()) is a new
\* buffer on every call; it is named after the native document that reads it.
DataCopy == NewRef

load_document(pw) ==
    /\ \/ /\ pw = "interior_nul"
          /\ result' = Err("load_document", NoHandle, "Invalid password")
          /\ calls' = NoCalls
          /\ UNCHANGED <<handles, next_handle, doc_data, native, issued, closed>>
       \/ /\ pw # "interior_nul"
          /\ \E code \in 0 .. MaxErrCode :
               /\ calls' = << Call("FPDF_LoadMemDocument", 0, -1, 0, 0),
                              Call("FPDF_GetLastError", 0, -1, 0, code) >>
               /\ result' = LoadDocumentFailure(code)
          /\ UNCHANGED <<handles, next_handle, doc_data, native, issued, closed>>
       \/ /\ pw # "interior_nul"
          /\ CanAlloc
          /\ calls' = << Call("FPDF_LoadMemDocument", 0, -1, 0, NewRef) >>
          /\ native' = NativeCreate("Document", 0, DataCopy)
          /\ alloc_handle("Document", NewRef, "load_document")
          /\ doc_data' = DocDataInsert(AllocHandle, DataCopy)
          /\ result' = Ok("load_document", NoHandle, AllocHandle)
          /\ UNCHANGED closed
    /\ UNCHANGED <<library, inner>>

\* What close_document does once the removed entry is a document: the native
\* close, then the release of the retained buffer.
CloseDocumentSteps_ReleaseFirst(h, doc) ==
    << ReleaseBuffer(h), Call("FPDF_CloseDocument", doc, -1, 0, 0) >>

CloseDocumentSteps(h, doc) ==
    << Call("FPDF_CloseDocument", doc, -1, 0, 0), ReleaseBuffer(h) >>

\* Native objects loaded, directly or through a page, from object r.
LoadedFrom(r) ==
    {c \in DOMAIN native :
        \/ native[c].parent = r
        \/ native[c].parent \in DOMAIN native /\ native[native[c].parent].parent = r}

\* The table after close_document's self.handles.remove(&handle).
CloseDocumentRemove_Cascade(h) ==
    IF IsKind(h, "Document")
    THEN [k \in {j \in (DOMAIN handles) \ {h} : handles[j].ref \notin LoadedFrom(handles[h].ref)}
            |-> handles[k]]
    ELSE HandlesRemove(h)

CloseDocumentRemove(h) == HandlesRemove(h)

close_document(h) ==
    /\ handles' = CloseDocumentRemove(h)
    /\ \/ /\ IsKind(h, "Document")
          /\ calls' = CloseDocumentSteps(h, handles[h].ref)
          /\ native' = NativeClose(handles[h].ref)
          /\ doc_data' = DocDataRemove(h)
          /\ closed' = closed \cup {h}
          /\ result' = Ok("close_document", h, 0)
       \/ /\ Present(h) /\ ~IsKind(h, "Document")
          /\ calls' = NoCalls
          /\ result' = HandleErr("close_document", h, "Handle is not a document")
          /\ UNCHANGED <<native, doc_data, closed>>
       \/ /\ ~Present(h)
          /\ calls' = NoCalls
          /\ result' = HandleErr("close_document", h, "Invalid handle")
          /\ UNCHANGED <<native, doc_data, closed>>
    /\ UNCHANGED <<next_handle, issued>>
    /\ UNCHANGED <<library, inner>>

get_page_count(h) ==
    /\ \/ /\ IsKind(h, "Document")
          /\ calls' = << Call("FPDF_GetPageCount", handles[h].ref, -1, 0, 1) >>
          /\ result' = Ok("get_page_count", h, 1)
       \/ /\ ~IsKind(h, "Document")
          /\ calls' = NoCalls
          /\ result' = HandleErr("get_page_count", h, "Invalid document handle")
    /\ UNCHANGED <<handles, next_handle, doc_data, native, issued, closed>>
    /\ UNCHANGED <<library, inner>>

\* The variant that stores the native result before testing it for null.
import_n_pages_to_one_AllocBeforeCheck(h) ==
    /\ \/ /\ ~IsKind(h, "Document")
          /\ calls' = NoCalls
          /\ result' = HandleErr("import_n_pages_to_one", h, "Invalid source document handle")
          /\ UNCHANGED <<handles, next_handle, doc_data, native, issued, closed>>
       \/ /\ IsKind(h, "Document")
          /\ CanAlloc
          /\ calls' = << Call("FPDF_ImportNPagesToOne", handles[h].ref, -1, 0, 0) >>
          /\ alloc_handle("Document", 0, "import_n_pages_to_one")
          /\ result' = Err("import_n_pages_to_one", h, "Failed to create N-up document")
          /\ UNCHANGED <<doc_data, native, closed>>
       \/ /\ IsKind(h, "Document")
          /\ CanAlloc
          /\ calls' = << Call("FPDF_ImportNPagesToOne", handles[h].ref, -1, 0, NewRef) >>
          /\ native' = NativeCreate("Document", 0, 0)
          /\ alloc_handle("Document", NewRef, "import_n_pages_to_one")
          /\ result' = Ok("import_n_pages_to_one", h, AllocHandle)
          /\ UNCHANGED <<doc_data, closed>>
    /\ UNCHANGED <<library, inner>>

import_n_pages_to_one(h) ==
    /\ \/ /\ ~IsKind(h, "Document")
          /\ calls' = NoCalls
          /\ result' = HandleErr("import_n_pages_to_one", h, "Invalid source document handle")
          /\ UNCHANGED <<handles, next_handle, doc_data, native, issued, closed>>
       \/ /\ IsKind(h, "Document")
          /\ calls' = << Call("FPDF_ImportNPagesToOne", handles[h].ref, -1, 0, 0) >>
          /\ result' = Err("import_n_pages_to_one", h, "Failed to create N-up document")
          /\ UNCHANGED <<handles, next_handle, doc_data, native, issued, closed>>
       \/ /\ IsKind(h, "Document")
          /\ CanAlloc
          /\ calls' = << Call("FPDF_ImportNPagesToOne", handles[h].ref, -1, 0, NewRef) >>
          /\ native' = NativeCreate("Document", 0, 0)
          /\ alloc_handle("Document", NewRef, "import_n_pages_to_one")
          /\ result' = Ok("import_n_pages_to_one", h, AllocHandle)
          /\ UNCHANGED <<doc_data, closed>>
    /\ UNCHANGED <<library, inner>>

\* ------------------------------------------------------------------- pages
load_page(h) ==
    /\ \/ /\ ~IsKind(h, "Document")
          /\ calls' = NoCalls
          /\ result' = HandleErr("load_page", h, "Invalid document handle")
          /\ UNCHANGED <<handles, next_handle, doc_data, native, issued, closed>>
       \/ /\ IsKind(h, "Document")
          /\ calls' = << Call("FPDF_LoadPage", handles[h].ref, -1, 0, 0) >>
          /\ result' = Err("load_page", h, "Failed to load page")
          /\ UNCHANGED <<handles, next_handle, doc_data, native, issued, closed>>
       \/ /\ IsKind(h, "Document")
          /\ CanAlloc
          /\ calls' = << Call("FPDF_LoadPage", handles[h].ref, -1, 0, NewRef) >>
          /\ native' = NativeCreate("Page", handles[h].ref, 0)
          /\ alloc_handle("Page", NewRef, "load_page")
          /\ result' = Ok("load_page", h, AllocHandle)
          /\ UNCHANGED <<doc_data, closed>>
    /\ UNCHANGED <<library, inner>>

close_page(h) ==
    /\ handles' = HandlesRemove(h)
    /\ \/ /\ IsKind(h, "Page")
          /\ calls' = << Call("FPDF_ClosePage", handles[h].ref, -1, 0, 0) >>
          /\ native' = NativeClose(handles[h].ref)
          /\ closed' = closed \cup {h}
          /\ result' = Ok("close_page", h, 0)
       \/ /\ Present(h) /\ ~IsKind(h, "Page")
          /\ calls' = NoCalls
          /\ result' = HandleErr("close_page", h, "Handle is not a page")
          /\ UNCHANGED <<native, closed>>
       \/ /\ ~Present(h)
          /\ calls' = NoCalls
          /\ result' = HandleErr("close_page", h, "Invalid handle")
          /\ UNCHANGED <<native, closed>>
    /\ UNCHANGED <<next_handle, doc_data, issued>>
    /\ UNCHANGED <<library, inner>>

get_page_width(h) ==
    /\ \/ /\ IsKind(h, "Page")
          /\ calls' = << Call("FPDF_GetPageWidthF", handles[h].ref, -1, 0, 1) >>
          /\ result' = Ok("get_page_width", h, 1)
       \/ /\ ~IsKind(h, "Page")
          /\ calls' = NoCalls
          /\ result' = HandleErr("get_page_width", h, "Invalid page handle")
    /\ UNCHANGED <<handles, next_handle, doc_data, native, issued, closed>>
    /\ UNCHANGED <<library, inner>>

\* -------------------------------------------------------------- text pages
load_text_page(h) ==
    /\ \/ /\ ~IsKind(h, "Page")
          /\ calls' = NoCalls
          /\ result' = HandleErr("load_text_page", h, "Invalid page handle")
          /\ UNCHANGED <<handles, next_handle, doc_data, native, issued, closed>>
       \/ /\ IsKind(h, "Page")
          /\ calls' = << Call("FPDFText_LoadPage", handles[h].ref, -1, 0, 0) >>
          /\ result' = Err("load_text_page", h, "Failed to load text page")
          /\ UNCHANGED <<handles, next_handle, doc_data, native, issued, closed>>
       \/ /\ IsKind(h, "Page")
          /\ CanAlloc
          /\ calls' = << Call("FPDFText_LoadPage", handles[h].ref, -1, 0, NewRef) >>
          /\ native' = NativeCreate("TextPage", handles[h].ref, 0)
          /\ alloc_handle("TextPage", NewRef, "load_text_page")
          /\ result' = Ok("load_text_page", h, AllocHandle)
          /\ UNCHANGED <<doc_data, closed>>
    /\ UNCHANGED <<library, inner>>

close_text_page(h) ==
    /\ handles' = HandlesRemove(h)
    /\ \/ /\ IsKind(h, "TextPage")
          /\ calls' = << Call("FPDFText_ClosePage", handles[h].ref, -1, 0, 0) >>
          /\ native' = NativeClose(handles[h].ref)
          /\ closed' = closed \cup {h}
          /\ result' = Ok("close_text_page", h, 0)
       \/ /\ Present(h) /\ ~IsKind(h, "TextPage")
          /\ calls' = NoCalls
          /\ result' = HandleErr("close_text_page", h, "Handle is not a text page")
          /\ UNCHANGED <<native, closed>>
       \/ /\ ~Present(h)
          /\ calls' = NoCalls
          /\ result' = HandleErr("close_text_page", h, "Invalid handle")
          /\ UNCHANGED <<native, closed>>
    /\ UNCHANGED <<next_handle, doc_data, issued>>
    /\ UNCHANGED <<library, inner>>

count_text_chars(h) ==
    /\ \/ /\ IsKind(h, "TextPage")
          /\ calls' = << Call("FPDFText_CountChars", handles[h].ref, -1, 0, 1) >>
          /\ result' = Ok("count_text_chars", h, 1)
       \/ /\ ~IsKind(h, "TextPage")
          /\ calls' = NoCalls
          /\ result' = HandleErr("count_text_chars", h, "Invalid text page handle")
    /\ UNCHANGED <<handles, next_handle, doc_data, native, issued, closed>>
    /\ UNCHANGED <<library, inner>>

\* ---------------------------------------------------------------------------
Next ==
    \/ \E pw \in Passwords : load_document(pw)
    \/ \E h \in HandleArgs : close_document(h)
    \/ \E h \in HandleArgs : get_page_count(h)
    \/ \E h \in HandleArgs : import_n_pages_to_one(h)
    \/ \E h \in HandleArgs : load_page(h)
    \/ \E h \in HandleArgs : close_page(h)
    \/ \E h \in HandleArgs : get_page_width(h)
    \/ \E h \in HandleArgs : load_text_page(h)
    \/ \E h \in HandleArgs : close_text_page(h)
    \/ \E h \in HandleArgs : count_text_chars(h)

Spec == Init /\ [][Next]_vars


\* ======================================================= handle lifecycle
\* The resource kind each operation expects of its handle argument.
ExpectedKind(op) ==
    CASE op \in {"close_document", "get_page_count", "load_page",
                 "import_n_pages_to_one"} -> "Document"
      [] op \in {"close_page", "get_page_width", "load_text_page"} -> "Page"
      [] op \in {"close_text_page", "count_text_chars"} -> "TextPage"
      [] OTHER -> "none"

IsHandleErr(r) == r.cause # ""

\* h was returned by an open operation as a handle of this kind.
IssuedAs(h, kind) ==
    \E i \in 1 .. Len(issued) : issued[i].handle = h /\ issued[i].kind = kind

\* C1: a handle returned by an open operation is accepted by every operation
\* of its kind until the close of its kind is called on it; once that close
\* has been called, every operation on it fails and makes no native call.
C1_AcceptedUntilClosed ==
    [][LET r == result' IN
        r.handle # NoHandle =>
            /\ (IssuedAs(r.handle, ExpectedKind(r.op)) /\ r.handle \notin closed)
                    => ~IsHandleErr(r)
            /\ r.handle \in closed => (r.status = "err" /\ calls' = NoCalls)]_vars

\* C2: no open operation returns a handle value that an earlier open returned,
\* whether or not that earlier handle has been closed since.
C2_HandlesNeverReused ==
    \A i, j \in 1 .. Len(issued) : i # j => issued[i].handle # issued[j].handle

\* An open succeeded after some handle had been closed, and after another had
\* been removed or closed too.
C2_Witness ==
    /\ result.status = "ok"
    /\ result.op \in {"load_document", "load_page", "load_text_page", "import_n_pages_to_one"}
    /\ closed # {}
    /\ Len(issued) = MaxHandle

\* C3: a never-issued or removed handle and a handle of another kind fail with
\* errors the caller can tell apart: the same operation never reports the two
\* causes with the same error message.
C3_CausesDistinguishable ==
    [][(/\ IsHandleErr(result) /\ IsHandleErr(result')
        /\ result.op = result'.op /\ result.err = result'.err)
            => result.cause = result'.cause]_vars

\* C4: an operation that fails with a handle error leaves the handle table,
\* the retained buffers and the counter as they were.
C4_HandleErrorChangesNothing ==
    [][IsHandleErr(result') =>
            /\ handles' = handles
            /\ doc_data' = doc_data
            /\ next_handle' = next_handle]_vars

\* C5: while the native close of a document created by load_document has not
\* been called, doc_data holds the document's buffer under its handle, and
\* only a successful close_document of that handle releases a buffer.
C5_BufferRetainedWhileOpen ==
    /\ [](\A i \in 1 .. Len(issued) :
            (issued[i].via = "load_document" /\ native[issued[i].ref].open)
                => /\ issued[i].handle \in DOMAIN doc_data
                   /\ doc_data[issued[i].handle] = native[issued[i].ref].data)
    /\ [][\A h \in DOMAIN doc_data :
            (h \notin DOMAIN doc_data' \/ doc_data'[h] # doc_data[h])
                => /\ result'.op = "close_document"
                   /\ result'.handle = h
                   /\ result'.status = "ok"]_vars

\* A loaded document whose handle is gone from the table without its native
\* close having been called: its buffer is still retained.
C5_Witness ==
    \E i \in 1 .. Len(issued) :
        /\ issued[i].via = "load_document"
        /\ native[issued[i].ref].open
        /\ issued[i].handle \notin DOMAIN handles
        /\ issued[i].handle \in DOMAIN doc_data

\* C6: a successful close_document calls the native close of the document
\* before it releases the retained buffer, never the other way round, and the
\* buffer is no longer retained when it returns.
C6_NativeCloseBeforeRelease ==
    [][(result'.op = "close_document" /\ result'.status = "ok") =>
        LET h == result'.handle IN
            /\ \E i \in 1 .. Len(calls') :
                    /\ calls'[i].fn = "FPDF_CloseDocument"
                    /\ calls'[i].ref = handles[h].ref
            /\ \A j \in 1 .. Len(calls') :
                    calls'[j] = ReleaseBuffer(h) =>
                        \E i \in 1 .. (j - 1) :
                            /\ calls'[i].fn = "FPDF_CloseDocument"
                            /\ calls'[i].ref = handles[h].ref
            /\ h \in DOMAIN doc_data =>
                    \E j \in 1 .. Len(calls') : calls'[j] = ReleaseBuffer(h)
            /\ h \notin DOMAIN doc_data']_vars

\* close_document has just succeeded on a document made by load_document.
C6_Witness ==
    /\ result.op = "close_document"
    /\ result.status = "ok"
    /\ \E i \in 1 .. Len(issued) :
            issued[i].handle = result.handle /\ issued[i].via = "load_document"
    /\ Len(calls) = 2

\* C7: a successful close_document removes the document's own entry only: all
\* other entries stay as they were, no page or text page is natively closed,
\* and an operation of the right kind on a handle that is in the table is
\* accepted whatever has happened to the document it was loaded from.
C7_NoCascadeClose ==
    /\ [][(result'.op = "close_document" /\ result'.status = "ok") =>
            /\ \A k \in (DOMAIN handles) \ {result'.handle} :
                    k \in DOMAIN handles' /\ handles'[k] = handles[k]
            /\ \A j \in 1 .. Len(calls') :
                    calls'[j].fn \notin {"FPDF_ClosePage", "FPDFText_ClosePage"}
            /\ \A r \in DOMAIN native :
                    r # handles[result'.handle].ref => native'[r].open = native[r].open]_vars
    /\ [][\A k \in DOMAIN handles :
            (/\ handles[k].kind \in {"Page", "TextPage"}
             /\ result'.handle = k
             /\ ExpectedKind(result'.op) = handles[k].kind)
                => ~IsHandleErr(result')]_vars

\* A page handle is closed successfully after its document, whose own close
\* succeeded, was closed first.
C7_Witness ==
    /\ result.op = "close_page"
    /\ result.status = "ok"
    /\ \E i, j \in 1 .. Len(issued) :
            /\ issued[i].handle = result.handle
            /\ issued[j].ref = native[issued[i].ref].parent
            /\ issued[j].handle \in closed
            /\ ~native[issued[j].ref].open
            /\ calls = << Call("FPDF_ClosePage", issued[i].ref, -1, 0, 0) >>

\* C8: when FPDF_LoadMemDocument returns null, load_document returns an error
\* carrying the code FPDF_GetLastError returned, issues no handle and retains
\* no buffer.
C8_LoadFailureReportsCode ==
    [][(/\ result'.op = "load_document"
        /\ \E i \in 1 .. Len(calls') :
                calls'[i].fn = "FPDF_LoadMemDocument" /\ calls'[i].ret = 0) =>
            /\ result'.status = "err"
            /\ \E i \in 1 .. Len(calls') :
                    calls'[i].fn = "FPDF_GetLastError" /\ result'.code = calls'[i].ret
            /\ handles' = handles
            /\ doc_data' = doc_data
            /\ next_handle' = next_handle
            /\ issued' = issued]_vars

\* load_document has just failed on rejected bytes while a document is open.
C8_Witness ==
    /\ result.op = "load_document"
    /\ result.status = "err"
    /\ result.code = MaxErrCode
    /\ Len(calls) = 2
    /\ DOMAIN doc_data # {}


\* ================================================ two-phase buffer protocol
\* The native library is the environment of every read below.  It answers the
\* size queries of one operation call with one size, and fills every output
\* buffer of that call after one pattern: a run of one byte that ends, at the
\* length it writes, with 0, 1 or 2 NUL bytes.  The byte is the ASCII
\* letter 'a' or 0xD8, which is no valid UTF-8 on its own and is the high
\* byte of a lone UTF-16 surrogate.
Bytes == {97, 216}
\* The set S with its elements listed.
Enumerated(S) == {x : x \in S}
Patterns == Enumerated([fill : Bytes, nul : 0 .. 2])
SizeArgs == 0 .. MaxSize
\* Sizes counted in UTF-16 code units (c_int, so possibly negative).
UnitSizeArgs == -1 .. (MaxSize \div 2)

\* The bytes the native function writes when told a capacity of n bytes.
Written(pat, n) == [i \in 1 .. n |-> IF i > n - pat.nul THEN 0 ELSE pat.fill]

\* The first len elements of a Vec<u16> over which the bytes were written.
U16Units(bytes, len) == [i \in 1 .. len |-> bytes[2 * i - 1] + 256 * bytes[2 * i]]

\* Bytes per element of the output buffer the native function takes, from its
\* pointer type in bindings.rs; its capacity argument counts these elements.
UnitBytes(fn) ==
    CASE fn = "FPDFText_GetBoundedText" -> 2
      [] fn = "FPDFSignatureObj_GetByteRange" -> 4
      [] OTHER -> 1

\* The first call of the protocol: null output pointer, capacity 0.
SizeQuery(fn, ref, size) == Call(fn, ref, -1, 0, size)

\* The second call: a buffer of bufBytes bytes and the capacity argument cap.
FillCall(fn, ref, bufBytes, cap) == Call(fn, ref, bufBytes, cap, cap)

\* A call that tells the native function a capacity beyond the buffer's end.
Overflows(c) == c.buf >= 0 /\ c.buf < c.cap * UnitBytes(c.fn)

\* Option<String> and the outcome of a decode.
None == [some |-> FALSE, text |-> << >>]
Some(text) == [some |-> TRUE, text |-> text]
Decoded(text) == [ok |-> TRUE, text |-> text]
DecodeError == [ok |-> FALSE, text |-> << >>]

IsHighSurrogate(u) == u >= 55296 /\ u <= 56319
IsLowSurrogate(u) == u >= 56320 /\ u <= 57343

\* String::from_utf16: the code points of the units, or an error on an
\* unpaired surrogate.
RECURSIVE from_utf16(_)
from_utf16(units) ==
    IF units = << >> THEN Decoded(<< >>)
    ELSE IF IsHighSurrogate(units[1])
    THEN IF Len(units) >= 2 /\ IsLowSurrogate(units[2])
         THEN LET rest == from_utf16(SubSeq(units, 3, Len(units)))
                  cp == 65536 + (units[1] - 55296) * 1024 + (units[2] - 56320)
              IN IF rest.ok THEN Decoded(<<cp>> \o rest.text) ELSE DecodeError
         ELSE DecodeError
    ELSE IF IsLowSurrogate(units[1]) THEN DecodeError
    ELSE LET rest == from_utf16(Tail(units))
         IN IF rest.ok THEN Decoded(<<units[1]>> \o rest.text) ELSE DecodeError

\* String::from_utf16_lossy: an unpaired surrogate becomes U+FFFD.
RECURSIVE from_utf16_lossy(_)
from_utf16_lossy(units) ==
    IF units = << >> THEN << >>
    ELSE IF IsHighSurrogate(units[1]) /\ Len(units) >= 2 /\ IsLowSurrogate(units[2])
    THEN <<65536 + (units[1] - 55296) * 1024 + (units[2] - 56320)>>
            \o from_utf16_lossy(SubSeq(units, 3, Len(units)))
    ELSE IF IsHighSurrogate(units[1]) \/ IsLowSurrogate(units[1])
    THEN <<65533>> \o from_utf16_lossy(Tail(units))
    ELSE <<units[1]>> \o from_utf16_lossy(Tail(units))

\* String::from_utf8 on the bytes that occur here: one-byte and two-byte
\* sequences (no byte of Bytes starts a longer one).
RECURSIVE from_utf8(_)
from_utf8(bytes) ==
    IF bytes = << >> THEN Decoded(<< >>)
    ELSE IF bytes[1] < 128
    THEN LET rest == from_utf8(Tail(bytes))
         IN IF rest.ok THEN Decoded(<<bytes[1]>> \o rest.text) ELSE DecodeError
    ELSE IF /\ bytes[1] >= 194 /\ bytes[1] <= 223
            /\ Len(bytes) >= 2 /\ bytes[2] >= 128 /\ bytes[2] <= 191
    THEN LET rest == from_utf8(SubSeq(bytes, 3, Len(bytes)))
         IN IF rest.ok
            THEN Decoded(<<(bytes[1] - 192) * 64 + (bytes[2] - 128)>> \o rest.text)
            ELSE DecodeError
    ELSE DecodeError

\* if buf.last() == Some(&0) { buf.pop(); }
PopNul(buf) ==
    IF Len(buf) > 0 /\ buf[Len(buf)] = 0 THEN SubSeq(buf, 1, Len(buf) - 1) ELSE buf

\* if u16_len > 0 && buffer[u16_len - 1] == 0 { u16_len - 1 } else { u16_len }
TextLen(buffer, u16_len) ==
    IF u16_len > 0 /\ buffer[u16_len] = 0 THEN u16_len - 1 ELSE u16_len

\* The process dies inside or after a native call that wrote past a buffer,
\* or in a Rust panic.
Abort(op, h) ==
    [op |-> op, handle |-> h, status |-> "abort", err |-> "", code |-> -1,
     value |-> 0, cause |-> ""]

\* An operation that wrote past a buffer either goes on with what it has or
\* the process dies.
Outcome(op, h, cs, res) ==
    /\ calls' = cs
    /\ \/ result' = res
       \/ /\ \E i \in 1 .. Len(cs) : Overflows(cs[i])
          /\ result' = Abort(op, h)

Frame == UNCHANGED <<handles, next_handle, doc_data, native, issued, closed, library, inner>>

\* ------------------------------------------------------------ get_meta_text
\* The calls get_meta_text makes for a reported size.
MetaTextCalls(doc, size) ==
    IF size = 0
    THEN << SizeQuery("FPDF_GetMetaText", doc, size) >>
    ELSE << SizeQuery("FPDF_GetMetaText", doc, size),
            FillCall("FPDF_GetMetaText", doc, 2 * (size \div 2), size) >>

\* What get_meta_text returns for a reported size and the bytes written.
MetaTextResult(h, size, pat) ==
    IF size = 0 THEN Ok("get_meta_text", h, None)
    ELSE LET u16_len == size \div 2
             buffer == U16Units(Written(pat, size), u16_len)
             text_len == TextLen(buffer, u16_len)
             text == from_utf16(SubSeq(buffer, 1, text_len))
         IN IF text_len = 0 THEN Ok("get_meta_text", h, None)
            ELSE IF text.ok THEN Ok("get_meta_text", h, Some(text.text))
            ELSE Err("get_meta_text", h, "UTF-16 decode error")

get_meta_text(h, tag) ==
    /\ \/ /\ ~IsKind(h, "Document")
          /\ calls' = NoCalls
          /\ result' = HandleErr("get_meta_text", h, "Invalid document handle")
       \/ /\ IsKind(h, "Document")
          /\ tag = "interior_nul"
          /\ calls' = NoCalls
          /\ result' = Err("get_meta_text", h, "Invalid tag")
       \/ /\ IsKind(h, "Document")
          /\ tag # "interior_nul"
          /\ \E size \in SizeArgs, pat \in Patterns :
                Outcome("get_meta_text", h, MetaTextCalls(handles[h].ref, size),
                        MetaTextResult(h, size, pat))
    /\ Frame

\* ----------------------------------------------------------- get_page_label
PageLabelCalls(doc, size) ==
    IF size = 0
    THEN << SizeQuery("FPDF_GetPageLabel", doc, size) >>
    ELSE << SizeQuery("FPDF_GetPageLabel", doc, size),
            FillCall("FPDF_GetPageLabel", doc, 2 * (size \div 2), size) >>

PageLabelResult(h, size, pat) ==
    IF size = 0 THEN Ok("get_page_label", h, None)
    ELSE LET u16_len == size \div 2
             buffer == U16Units(Written(pat, size), u16_len)
             text_len == TextLen(buffer, u16_len)
             text == from_utf16(SubSeq(buffer, 1, text_len))
         IN IF text_len = 0 THEN Ok("get_page_label", h, None)
            ELSE IF text.ok THEN Ok("get_page_label", h, Some(text.text))
            ELSE Err("get_page_label", h, "UTF-16 decode error")

get_page_label(h) ==
    /\ \/ /\ ~IsKind(h, "Document")
          /\ calls' = NoCalls
          /\ result' = HandleErr("get_page_label", h, "Invalid document handle")
       \/ /\ IsKind(h, "Document")
          /\ \E size \in SizeArgs, pat \in Patterns :
                Outcome("get_page_label", h, PageLabelCalls(handles[h].ref, size),
                        PageLabelResult(h, size, pat))
    /\ Frame

\* ------------------------------------------------------- get_char_font_info
FontInfoCalls(tp, size) ==
    IF size = 0
    THEN << SizeQuery("FPDFText_GetFontInfo", tp, size) >>
    ELSE << SizeQuery("FPDFText_GetFontInfo", tp, size),
            FillCall("FPDFText_GetFontInfo", tp, size, size) >>

FontInfoResult(h, size, pat) ==
    IF size = 0 THEN Ok("get_char_font_info", h, None)
    ELSE LET name == from_utf8(PopNul(Written(pat, size)))
         IN IF name.ok /\ name.text # << >>
            THEN Ok("get_char_font_info", h, Some(name.text))
            ELSE Ok("get_char_font_info", h, None)

get_char_font_info(h) ==
    /\ \/ /\ ~IsKind(h, "TextPage")
          /\ calls' = NoCalls
          /\ result' = HandleErr("get_char_font_info", h, "Invalid text page handle")
       \/ /\ IsKind(h, "TextPage")
          /\ \E size \in SizeArgs, pat \in Patterns :
                Outcome("get_char_font_info", h, FontInfoCalls(handles[h].ref, size),
                        FontInfoResult(h, size, pat))
    /\ Frame

\* --------------------------------------------------------- get_bounded_text
\* size and written count UTF-16 code units.
BoundedTextCalls(tp, size, written) ==
    IF size <= 0
    THEN << SizeQuery("FPDFText_GetBoundedText", tp, size) >>
    ELSE << SizeQuery("FPDFText_GetBoundedText", tp, size),
            Call("FPDFText_GetBoundedText", tp, 2 * size, size, written) >>

BoundedTextResult(h, size, written, pat) ==
    IF size <= 0 \/ written <= 0 THEN Ok("get_bounded_text", h, << >>)
    ELSE IF written > size THEN Abort("get_bounded_text", h)
    ELSE LET buffer == U16Units(Written(pat, 2 * written), written)
             len == IF buffer[written] = 0 THEN written - 1 ELSE written
             text == from_utf16(SubSeq(buffer, 1, len))
         IN IF text.ok THEN Ok("get_bounded_text", h, text.text)
            ELSE Err("get_bounded_text", h, "UTF-16 decode error")

get_bounded_text(h) ==
    /\ \/ /\ ~IsKind(h, "TextPage")
          /\ calls' = NoCalls
          /\ result' = HandleErr("get_bounded_text", h, "Invalid text page handle")
       \/ /\ IsKind(h, "TextPage")
          /\ \E size \in UnitSizeArgs, pat \in Patterns :
                \E written \in UnitSizeArgs \cup {size + 1} :
                    Outcome("get_bounded_text", h,
                            BoundedTextCalls(handles[h].ref, size, written),
                            BoundedTextResult(h, size, written, pat))
    /\ Frame

\* One value-returning native call without an output buffer.
PlainCall(fn, ref, ret) == Call(fn, ref, -1, 0, ret)

\* ------------------------------------------------------------ get_full_text
\* char_count and written count UTF-16 code units; the buffer has one unit
\* more than char_count, for the terminator.
FullTextCalls(tp, char_count, written) ==
    IF char_count <= 0
    THEN << PlainCall("FPDFText_CountChars", tp, char_count) >>
    ELSE << PlainCall("FPDFText_CountChars", tp, char_count),
            Call("FPDFText_GetText", tp, 2 * (char_count + 1), char_count, written) >>

\* The native function writes `written` units, terminator included, into the
\* zeroed buffer; the first char_count units are decoded.
FullTextResult_WithTerminator(h, char_count, written, pat) ==
    IF char_count <= 0 THEN Ok("get_full_text", h, << >>)
    ELSE LET filled == U16Units(Written(pat, 2 * written), written)
             buffer == [i \in 1 .. (char_count + 1) |->
                           IF i <= written THEN filled[i] ELSE 0]
             text == from_utf16(buffer)
         IN IF text.ok THEN Ok("get_full_text", h, text.text)
            ELSE Err("get_full_text", h, "UTF-16 decode error")

FullTextResult(h, char_count, written, pat) ==
    IF char_count <= 0 THEN Ok("get_full_text", h, << >>)
    ELSE LET filled == U16Units(Written(pat, 2 * written), written)
             buffer == [i \in 1 .. (char_count + 1) |->
                           IF i <= written THEN filled[i] ELSE 0]
             text == from_utf16(SubSeq(buffer, 1, char_count))
         IN IF text.ok THEN Ok("get_full_text", h, text.text)
            ELSE Err("get_full_text", h, "UTF-16 decode error")

get_full_text(h) ==
    /\ \/ /\ ~IsKind(h, "TextPage")
          /\ calls' = NoCalls
          /\ result' = HandleErr("get_full_text", h, "Invalid text page handle")
       \/ /\ IsKind(h, "TextPage")
          /\ \E char_count \in UnitSizeArgs, pat \in Patterns :
                \E written \in {n \in {char_count, char_count + 1} : n >= 0} :
                    Outcome("get_full_text", h,
                            FullTextCalls(handles[h].ref, char_count, written),
                            FullTextResult(h, char_count, written, pat))
    /\ Frame

\* ------------------------------------------------------------ get_signature
\* The protocol as the five fields of get_signature run it: a second call
\* with a buffer of `size` elements when size exceeds the field's threshold.
SigContentsCalls(sig, size) ==
    IF size > 0
    THEN << SizeQuery("FPDFSignatureObj_GetContents", sig, size),
            FillCall("FPDFSignatureObj_GetContents", sig, size, size) >>
    ELSE << SizeQuery("FPDFSignatureObj_GetContents", sig, size) >>

SigContents(size, pat) == IF size > 0 THEN Some(Written(pat, size)) ELSE None

SigByteRangeCalls(sig, count) ==
    IF count > 0
    THEN << SizeQuery("FPDFSignatureObj_GetByteRange", sig, count),
            FillCall("FPDFSignatureObj_GetByteRange", sig, 4 * count, count) >>
    ELSE << SizeQuery("FPDFSignatureObj_GetByteRange", sig, count) >>

\* The i32 values are handed on as written; the model keeps their number.
SigByteRange(count) == IF count > 0 THEN Some([i \in 1 .. count |-> 0]) ELSE None

\* The sub-filter read with a second call for every size above 0.
SigSubFilterCalls_FillAnySize(sig, size) ==
    IF size > 0
    THEN << SizeQuery("FPDFSignatureObj_GetSubFilter", sig, size),
            FillCall("FPDFSignatureObj_GetSubFilter", sig, size, size) >>
    ELSE << SizeQuery("FPDFSignatureObj_GetSubFilter", sig, size) >>

SigSubFilterCalls(sig, size) ==
    IF size > 1
    THEN << SizeQuery("FPDFSignatureObj_GetSubFilter", sig, size),
            FillCall("FPDFSignatureObj_GetSubFilter", sig, size, size) >>
    ELSE << SizeQuery("FPDFSignatureObj_GetSubFilter", sig, size) >>

SigSubFilter(size, pat) ==
    IF size > 1
    THEN LET text == from_utf8(PopNul(Written(pat, size)))
         IN IF text.ok THEN Some(text.text) ELSE None
    ELSE None

SigReasonCalls(sig, size) ==
    IF size > 2
    THEN << SizeQuery("FPDFSignatureObj_GetReason", sig, size),
            FillCall("FPDFSignatureObj_GetReason", sig, size, size) >>
    ELSE << SizeQuery("FPDFSignatureObj_GetReason", sig, size) >>

SigReason(size, pat) ==
    IF size > 2
    THEN LET len == IF size >= 2 THEN size - 2 ELSE size
             u16_slice == U16Units(Written(pat, size), len \div 2)
         IN Some(from_utf16_lossy(u16_slice))
    ELSE None

SigTimeCalls(sig, size) ==
    IF size > 1
    THEN << SizeQuery("FPDFSignatureObj_GetTime", sig, size),
            FillCall("FPDFSignatureObj_GetTime", sig, size, size) >>
    ELSE << SizeQuery("FPDFSignatureObj_GetTime", sig, size) >>

SigTime(size, pat) ==
    IF size > 1
    THEN LET text == from_utf8(PopNul(Written(pat, size)))
         IN IF text.ok THEN Some(text.text) ELSE None
    ELSE None

\* The signature object is named after the document it belongs to.
get_signature(h, found) ==
    /\ \/ /\ ~IsKind(h, "Document")
          /\ calls' = NoCalls
          /\ result' = HandleErr("get_signature", h, "Invalid document handle")
       \/ /\ IsKind(h, "Document")
          /\ ~found
          /\ calls' = << PlainCall("FPDF_GetSignatureObject", handles[h].ref, 0) >>
          /\ result' = Err("get_signature", h, "Failed to get signature at index")
       \/ /\ IsKind(h, "Document")
          /\ found
          /\ \E size \in SizeArgs, pat \in Patterns :
             LET sig == handles[h].ref IN
                Outcome("get_signature", h,
                    << PlainCall("FPDF_GetSignatureObject", sig, sig) >>
                        \o SigContentsCalls(sig, size)
                        \o SigByteRangeCalls(sig, size)
                        \o SigSubFilterCalls(sig, size)
                        \o SigReasonCalls(sig, size)
                        \o SigTimeCalls(sig, size)
                        \o << PlainCall("FPDFSignatureObj_GetDocMDPPermission", sig, 0) >>,
                    Ok("get_signature", h,
                        [contents |-> SigContents(size, pat),
                         byte_range |-> SigByteRange(size),
                         sub_filter |-> SigSubFilter(size, pat),
                         reason |-> SigReason(size, pat),
                         time |-> SigTime(size, pat)]))
    /\ Frame

\* ----------------------------------------------------------- get_attachment
AttachmentNameCalls(att, name_size) ==
    IF name_size > 0
    THEN << SizeQuery("FPDFAttachment_GetName", att, name_size),
            FillCall("FPDFAttachment_GetName", att, 2 * (name_size \div 2), name_size) >>
    ELSE << SizeQuery("FPDFAttachment_GetName", att, name_size) >>

AttachmentName(name_size, pat) ==
    IF name_size > 0
    THEN LET u16_len == name_size \div 2
             buf == U16Units(Written(pat, name_size), u16_len)
             text_len == TextLen(buf, u16_len)
             text == from_utf16(SubSeq(buf, 1, text_len))
         IN IF text.ok THEN text.text ELSE << >>
    ELSE << >>

\* FPDFAttachment_GetFile returns a flag and reports the length through
\* out_len; a size query that returns false is logged with ret = -1.
AttachmentFileCalls(att, ok, out_len, actual_len) ==
    IF ok /\ out_len > 0
    THEN << SizeQuery("FPDFAttachment_GetFile", att, out_len),
            Call("FPDFAttachment_GetFile", att, out_len, out_len, actual_len) >>
    ELSE << SizeQuery("FPDFAttachment_GetFile", att, IF ok THEN out_len ELSE -1) >>

\* buf.truncate(actual_len)
AttachmentFile(ok, out_len, actual_len, pat) ==
    IF ok /\ out_len > 0
    THEN SubSeq(Written(pat, out_len), 1,
                IF actual_len < out_len THEN actual_len ELSE out_len)
    ELSE << >>

\* The attachment object is named after the document it belongs to.
get_attachment(h, found) ==
    /\ \/ /\ ~IsKind(h, "Document")
          /\ calls' = NoCalls
          /\ result' = HandleErr("get_attachment", h, "Invalid document handle")
       \/ /\ IsKind(h, "Document")
          /\ ~found
          /\ calls' = << PlainCall("FPDFDoc_GetAttachment", handles[h].ref, 0) >>
          /\ result' = Ok("get_attachment", h, None)
       \/ /\ IsKind(h, "Document")
          /\ found
          /\ \E ok \in BOOLEAN, size \in SizeArgs, pat \in Patterns :
             \E actual_len \in {0, size} :
             LET att == handles[h].ref IN
                Outcome("get_attachment", h,
                    << PlainCall("FPDFDoc_GetAttachment", att, att) >>
                        \o AttachmentNameCalls(att, size)
                        \o AttachmentFileCalls(att, ok, size, actual_len),
                    Ok("get_attachment", h,
                        [some |-> TRUE,
                         name |-> AttachmentName(size, pat),
                         data |-> AttachmentFile(ok, size, actual_len, pat)]))
    /\ Frame


\* ---------------------------------------------------------------- get_links
\* A link as the native enumerator reports it: a null link pointer, or a link
\* with or without an action (of a type 0 .. 4), a direct destination and a
\* destination of its action.
Links ==
    Enumerated(
        {l \in [is_null : BOOLEAN, has_action : BOOLEAN, action_type : 0 .. 4,
                link_dest : BOOLEAN, action_dest : BOOLEAN] :
            /\ l.is_null => ~l.has_action /\ ~l.link_dest
            /\ ~l.has_action => l.action_type = 0 /\ ~l.action_dest})

\* The links of a page, in enumeration order.
LinkLists == Enumerated(UNION {[1 .. n -> Links] : n \in 0 .. MaxLinks})
\* A link without action and without destination.
IsBare(l) == ~l.is_null /\ ~l.has_action /\ ~l.link_dest

\* The link lists in which no link leads to a destination and only the last
\* link has an action.
ActionLinkLists ==
    Enumerated(
        {links \in LinkLists :
            /\ \A i \in 1 .. Len(links) : ~links[i].link_dest /\ ~links[i].action_dest
            /\ \A i \in 1 .. Len(links) - 1 : links[i].is_null \/ IsBare(links[i])})

Flag(b) == IF b THEN 1 ELSE 0

ActionUriCalls(action, size) ==
    IF size <= 1
    THEN << SizeQuery("FPDFAction_GetURIPath", action, size) >>
    ELSE << SizeQuery("FPDFAction_GetURIPath", action, size),
            FillCall("FPDFAction_GetURIPath", action, size, size) >>

read_action_uri(size, pat) ==
    IF size <= 1 THEN None
    ELSE LET text == from_utf8(PopNul(Written(pat, size)))
         IN IF text.ok THEN Some(text.text) ELSE None

ActionFilePathCalls(action, size) ==
    IF size <= 1
    THEN << SizeQuery("FPDFAction_GetFilePath", action, size) >>
    ELSE << SizeQuery("FPDFAction_GetFilePath", action, size),
            FillCall("FPDFAction_GetFilePath", action, size, size) >>

read_action_file_path(size, pat) ==
    IF size <= 1 THEN None
    ELSE LET text == from_utf8(PopNul(Written(pat, size)))
         IN IF text.ok THEN Some(text.text) ELSE None

\* dest_handle of one loop iteration: the link's own destination first, then
\* the action's.
HasDest_ActionOnly(l) == l.has_action /\ l.action_dest

HasDest(l) == l.link_dest \/ (l.has_action /\ l.action_dest)

\* One call of the enumerator: what it returned and whether the link pointer
\* it left in link_ptr is null.
LinkEnumerate(page, more, link_null) ==
    [fn |-> "FPDFLink_Enumerate", ref |-> page, buf |-> -1, cap |-> 0, ret |-> more,
     link_null |-> link_null]

\* The pages the two destinations of a link are on: its direct destination
\* and the destination of its action.
DirectDestPage == 0
ActionDestPage == 1
DestPage(l) == IF l.link_dest THEN DirectDestPage ELSE ActionDestPage

\* The native calls of one iteration of the enumeration loop.
LinkCalls(page, l, size) ==
    << LinkEnumerate(page, 1, l.is_null) >>
    \o (IF l.is_null THEN << >>
        ELSE << PlainCall("FPDFLink_GetAnnotRect", page, 1),
                PlainCall("FPDFLink_GetAction", page, Flag(l.has_action)) >>
             \o (IF l.has_action
                 THEN << PlainCall("FPDFAction_GetType", page, l.action_type) >>
                      \o (IF l.action_type = 3
                          THEN ActionUriCalls(page, size) ELSE << >>)
                      \o (IF l.action_type = 2 \/ l.action_type = 4
                          THEN ActionFilePathCalls(page, size) ELSE << >>)
                 ELSE << >>)
             \o << PlainCall("FPDFLink_GetDest", page, Flag(l.link_dest)) >>
             \o (IF ~l.link_dest /\ l.has_action
                 THEN << PlainCall("FPDFAction_GetDest", page, Flag(l.action_dest)) >>
                 ELSE << >>)
             \o (IF HasDest(l)
                 THEN << PlainCall("FPDFDest_GetDestPageIndex", page, DestPage(l)),
                         PlainCall("FPDFDest_GetView", page, 0),
                         PlainCall("FPDFDest_GetLocationInPage", page, 1) >>
                 ELSE << >>))

\* The LinkInfo pushed for a link (the rectangle and the coordinates left
\* out); the native library sets all three location flags of a destination.
LinkInfo(l, index, size, pat) ==
    [index |-> index,
     has_action |-> l.has_action,
     action_type |-> l.action_type,
     uri |-> IF l.has_action /\ l.action_type = 3
             THEN read_action_uri(size, pat) ELSE None,
     file_path |-> IF l.has_action /\ (l.action_type = 2 \/ l.action_type = 4)
                   THEN read_action_file_path(size, pat) ELSE None,
     has_dest |-> HasDest(l),
     dest_page_index |-> IF HasDest(l) THEN DestPage(l) ELSE -1,
     has_x |-> HasDest(l), has_y |-> HasDest(l), has_zoom |-> HasDest(l)]

\* index += 1
NextIndex_Same(index) == index

NextIndex(index) == index + 1

\* The while loop of get_links over the links still to come.
RECURSIVE LinkLoopCalls(_, _, _)
LinkLoopCalls(page, links, size) ==
    IF links = << >> THEN << LinkEnumerate(page, 0, TRUE) >>
    ELSE LinkCalls(page, Head(links), size) \o LinkLoopCalls(page, Tail(links), size)

RECURSIVE LinkLoopResult(_, _, _, _)
LinkLoopResult(links, index, size, pat) ==
    IF links = << >> THEN << >>
    ELSE IF Head(links).is_null THEN LinkLoopResult(Tail(links), index, size, pat)
    ELSE << LinkInfo(Head(links), index, size, pat) >>
            \o LinkLoopResult(Tail(links), NextIndex(index), size, pat)

\* Actions and destinations are named after the page they are found on.
get_links(hp, hd, lists) ==
    /\ \/ /\ ~IsKind(hp, "Page")
          /\ calls' = NoCalls
          /\ result' = HandleErr("get_links", hp, "Invalid page handle")
       \/ /\ IsKind(hp, "Page")
          /\ ~IsKind(hd, "Document")
          /\ calls' = NoCalls
          /\ result' = HandleErr("get_links", hd, "Invalid document handle")
       \/ /\ IsKind(hp, "Page")
          /\ IsKind(hd, "Document")
          /\ \E links \in lists, size \in SizeArgs, pat \in Patterns :
                Outcome("get_links", hp, LinkLoopCalls(handles[hp].ref, links, size),
                        Ok("get_links", hp, LinkLoopResult(links, 0, size, pat)))
    /\ Frame


\* ------------------------------------------------------------ get_bookmarks
MAX_BOOKMARK_DEPTH == 100

\* The outline as the native library reports it: bookmark 0 is the null
\* parent of the top level, first_child and next_sibling give 0 for "none",
\* and dest says which bookmarks have a destination.
Nodes == 1 .. MaxNodes
Outlines ==
    [first_child : [0 .. MaxNodes -> 0 .. MaxNodes],
     next_sibling : [Nodes -> 0 .. MaxNodes],
     dest : [Nodes -> BOOLEAN]]

\* How many links of the outline lead to bookmark n.
LinksTo(o, n) ==
    Cardinality({p \in 0 .. MaxNodes : o.first_child[p] = n})
        + Cardinality({m \in Nodes : o.next_sibling[m] = n})

\* Outlines that are trees: every link leads to a bookmark with a larger
\* number, no bookmark is linked to twice, and the bookmarks that are not
\* part of the outline are the last ones and have no links or destination.
TreeOutlines ==
    Enumerated(
        {o \in Outlines :
            /\ \A p \in 0 .. MaxNodes : o.first_child[p] = 0 \/ o.first_child[p] > p
            /\ \A n \in Nodes : o.next_sibling[n] = 0 \/ o.next_sibling[n] > n
            /\ \A n \in Nodes : LinksTo(o, n) <= 1
            /\ \A n \in Nodes :
                  LinksTo(o, n) = 0 =>
                      /\ o.first_child[n] = 0 /\ o.next_sibling[n] = 0 /\ ~o.dest[n]
                      /\ \A m \in Nodes : m > n => LinksTo(o, m) = 0})

\* The tree outlines in which no bookmark has a destination.
PlainOutlines == Enumerated({o \in TreeOutlines : \A n \in Nodes : ~o.dest[n]})

BookmarkTitleCalls(bookmark, size) ==
    IF size <= 2
    THEN << SizeQuery("FPDFBookmark_GetTitle", bookmark, size) >>
    ELSE << SizeQuery("FPDFBookmark_GetTitle", bookmark, size),
            FillCall("FPDFBookmark_GetTitle", bookmark, 2 * (size \div 2), size) >>

read_bookmark_title(size, pat) ==
    IF size <= 2 THEN << >>
    ELSE LET u16_len == size \div 2
             buffer == U16Units(Written(pat, size), u16_len)
             text_len == TextLen(buffer, u16_len)
             text == from_utf16(SubSeq(buffer, 1, text_len))
         IN IF text.ok THEN text.text ELSE << >>

\* The page FPDFDest_GetDestPageIndex reports for the destination of a
\* bookmark: in the documents of the model, bookmark n leads to page n.
DestPageIndex(bookmark) == bookmark

BookmarkNode_NoChildren(title, page_index, children) ==
    [title |-> title, page_index |-> page_index, children |-> << >>]

BookmarkNode(title, page_index, children) ==
    [title |-> title, page_index |-> page_index, children |-> children]

\* collect_bookmarks calls itself once for every level of the outline.  The
\* model tabulates it by depth: a table holds, for every bookmark taken as the
\* parent, what collect_bookmarks yields for that parent at one depth.  The
\* table of a depth is computed from the table of the depth below it, and the
\* table of depth MAX_BOOKMARK_DEPTH + 1 holds what the depth check yields.
Parents == 0 .. MaxNodes

\* The table in which every parent has the same entry.
Cut(entry) == {<<parent, entry>> : parent \in Parents}

\* What the table `below` holds for collect_bookmarks(doc, bookmark, depth + 1).
Below(below, bookmark) == (CHOOSE e \in below : e[1] = bookmark)[2]

\* The while loop of collect_bookmarks from the bookmark `current` on: the
\* nodes it pushes.
RECURSIVE SiblingLoop(_, _, _, _, _)
SiblingLoop(o, current, below, size, pat) ==
    IF current = 0 THEN << >>
    ELSE << BookmarkNode(read_bookmark_title(size, pat),
                         IF o.dest[current] THEN DestPageIndex(current) ELSE -1,
                         Below(below, current)) >>
            \o SiblingLoop(o, o.next_sibling[current], below, size, pat)

\* The nodes collect_bookmarks returns at one depth, for every parent.
CollectLevel(o, below, size, pat) ==
    {<<parent, SiblingLoop(o, o.first_child[parent], below, size, pat)>> : parent \in Parents}

\* The table n depths above the table `below`: a table that one depth leaves
\* as it is stays as it is, and otherwise n depths are n - n \div 2 depths
\* followed by n \div 2 more.
RECURSIVE CollectLevels(_, _, _, _, _)
CollectLevels(o, n, below, size, pat) ==
    IF n = 0 THEN below
    ELSE IF n = 1 THEN CollectLevel(o, below, size, pat)
    ELSE IF CollectLevel(o, below, size, pat) = below THEN below
    ELSE CHOOSE table \in {CollectLevels(o, n \div 2, half, size, pat) :
                              half \in {CollectLevels(o, n - n \div 2, below, size, pat)}} : TRUE

\* collect_bookmarks: the nodes it returns.
collect_bookmarks(o, parent, depth, size, pat) ==
    IF depth > MAX_BOOKMARK_DEPTH THEN << >>
    ELSE CHOOSE nodes \in
            {SiblingLoop(o, o.first_child[parent], below, size, pat) :
                below \in {CollectLevels(o, MAX_BOOKMARK_DEPTH - depth, Cut(<< >>), size, pat)}} : TRUE

\* The native calls they make, in order.
RECURSIVE SiblingLoopCalls(_, _, _, _)
SiblingLoopCalls(o, current, below, size) ==
    IF current = 0 THEN << >>
    ELSE BookmarkTitleCalls(current, size)
            \o << PlainCall("FPDFBookmark_GetDest", current, Flag(o.dest[current])) >>
            \o (IF o.dest[current]
                THEN << PlainCall("FPDFDest_GetDestPageIndex", current,
                                  DestPageIndex(current)) >>
                ELSE << >>)
            \o Below(below, current)
            \o << PlainCall("FPDFBookmark_GetNextSibling", current,
                            o.next_sibling[current]) >>
            \o SiblingLoopCalls(o, o.next_sibling[current], below, size)

CollectCallsFrom(o, parent, below, size) ==
    << PlainCall("FPDFBookmark_GetFirstChild", parent, o.first_child[parent]) >>
        \o SiblingLoopCalls(o, o.first_child[parent], below, size)

CollectCallsLevel(o, below, size) ==
    {<<parent, CollectCallsFrom(o, parent, below, size)>> : parent \in Parents}

RECURSIVE CollectCallsLevels(_, _, _, _)
CollectCallsLevels(o, n, below, size) ==
    IF n = 0 THEN below
    ELSE IF n = 1 THEN CollectCallsLevel(o, below, size)
    ELSE IF CollectCallsLevel(o, below, size) = below THEN below
    ELSE CHOOSE table \in {CollectCallsLevels(o, n \div 2, half, size) :
                              half \in {CollectCallsLevels(o, n - n \div 2, below, size)}} : TRUE

CollectCalls(o, parent, depth, size) ==
    IF depth > MAX_BOOKMARK_DEPTH THEN << >>
    ELSE CHOOSE cs \in
            {CollectCallsFrom(o, parent, below, size) :
                below \in {CollectCallsLevels(o, MAX_BOOKMARK_DEPTH - depth, Cut(<< >>), size)}} : TRUE

\* Whether they fail to end: a sibling chain that comes back to a bookmark it
\* has passed is walked for ever.
RECURSIVE SiblingLoopDiverges(_, _, _, _)
SiblingLoopDiverges(o, current, below, passed) ==
    IF current = 0 THEN FALSE
    ELSE IF current \in passed THEN TRUE
    ELSE \/ Below(below, current)
         \/ SiblingLoopDiverges(o, o.next_sibling[current], below, passed \cup {current})

DivergesLevel(o, below) ==
    {<<parent, SiblingLoopDiverges(o, o.first_child[parent], below, {})>> : parent \in Parents}

RECURSIVE DivergesLevels(_, _, _)
DivergesLevels(o, n, below) ==
    IF n = 0 THEN below
    ELSE IF n = 1 THEN DivergesLevel(o, below)
    ELSE IF DivergesLevel(o, below) = below THEN below
    ELSE CHOOSE table \in {DivergesLevels(o, n \div 2, half) :
                              half \in {DivergesLevels(o, n - n \div 2, below)}} : TRUE

Diverges(o, parent, depth) ==
    IF depth > MAX_BOOKMARK_DEPTH THEN FALSE
    ELSE CHOOSE d \in
            {SiblingLoopDiverges(o, o.first_child[parent], below, {}) :
                below \in {DivergesLevels(o, MAX_BOOKMARK_DEPTH - depth, Cut(FALSE))}} : TRUE

\* A call that never returns.
Hang(op, h) ==
    [op |-> op, handle |-> h, status |-> "hang", err |-> "", code |-> -1,
     value |-> 0, cause |-> ""]

get_bookmarks(h, outlines) ==
    /\ \/ /\ ~IsKind(h, "Document")
          /\ calls' = NoCalls
          /\ result' = HandleErr("get_bookmarks", h, "Invalid document handle")
       \/ /\ IsKind(h, "Document")
          /\ \E o \in outlines, size \in SizeArgs, pat \in Patterns :
                IF Diverges(o, 0, 0)
                THEN /\ calls' = NoCalls
                     /\ result' = Hang("get_bookmarks", h)
                ELSE Outcome("get_bookmarks", h, CollectCalls(o, 0, 0, size),
                             Ok("get_bookmarks", h,
                                collect_bookmarks(o, 0, 0, size, pat)))
    /\ Frame

\* ---------------------------------------------------------------------------
\* The reads of the buffer protocol on the objects a caller has opened.  A
\* read changes nothing but `calls` and `result` and depends on neither, so a
\* read made after another read ends in a state that a read made right after
\* an open operation ends in too; so does a read made after a failed open,
\* which leaves the table as it was.  The caller here makes its reads right
\* after construction or a successful open operation, and opens at any time.
AfterOpen ==
    /\ result.op \in {"load", "load_document", "load_page", "load_text_page"}
    /\ result.status = "ok"

NextBuf ==
    \/ \E pw \in Passwords : load_document(pw)
    \/ \E h \in HandleArgs : load_page(h)
    \/ \E h \in HandleArgs : load_text_page(h)
    \/ AfterOpen /\ \E h \in HandleArgs, tag \in {"Title", "interior_nul"} :
                        get_meta_text(h, tag)
    \/ AfterOpen /\ \E h \in HandleArgs : get_page_label(h)
    \/ AfterOpen /\ \E h \in HandleArgs : get_char_font_info(h)
    \/ AfterOpen /\ \E h \in HandleArgs : get_bounded_text(h)
    \/ AfterOpen /\ \E h \in HandleArgs : get_full_text(h)
    \/ AfterOpen /\ \E h \in HandleArgs, found \in BOOLEAN : get_signature(h, found)
    \/ AfterOpen /\ \E h \in HandleArgs, found \in BOOLEAN : get_attachment(h, found)
    \/ AfterOpen /\ \E hp \in HandleArgs, hd \in HandleArgs :
                        get_links(hp, hd, ActionLinkLists)
    \/ AfterOpen /\ \E h \in HandleArgs : get_bookmarks(h, PlainOutlines)

SpecBuf == Init /\ [][NextBuf]_vars


\* ======================================= claims on the buffer protocol
\* The native functions read with the two-phase protocol, one per call site.
ProtocolFns ==
    {"FPDF_GetMetaText", "FPDF_GetPageLabel", "FPDFText_GetFontInfo",
     "FPDFText_GetBoundedText", "FPDFSignatureObj_GetContents",
     "FPDFSignatureObj_GetByteRange", "FPDFSignatureObj_GetSubFilter",
     "FPDFSignatureObj_GetReason", "FPDFSignatureObj_GetTime",
     "FPDFAttachment_GetName", "FPDFAttachment_GetFile",
     "FPDFAction_GetURIPath", "FPDFAction_GetFilePath", "FPDFBookmark_GetTitle"}

IsSizeQuery(c) == c.fn \in ProtocolFns /\ c.buf = -1
IsFill(c) == c.fn \in ProtocolFns /\ c.buf >= 0

\* The second calls that belong to the size query at position i of the log:
\* calls of the same function with a buffer, up to its next size query.
FillsOf(i) ==
    {j \in (i + 1) .. Len(calls) :
        /\ IsFill(calls[j])
        /\ calls[j].fn = calls[i].fn
        /\ \A k \in (i + 1) .. (j - 1) :
              ~(IsSizeQuery(calls[k]) /\ calls[k].fn = calls[i].fn)}

\* The size up to which the call site of fn takes the field for absent.
Threshold(fn) ==
    CASE fn \in {"FPDFSignatureObj_GetSubFilter", "FPDFSignatureObj_GetTime",
                 "FPDFAction_GetURIPath", "FPDFAction_GetFilePath"} -> 1
      [] fn \in {"FPDFSignatureObj_GetReason", "FPDFBookmark_GetTitle"} -> 2
      [] OTHER -> 0

RECURSIVE TitlesEmpty(_)
TitlesEmpty(nodes) ==
    \A n \in 1 .. Len(nodes) :
        nodes[n].title = << >> /\ TitlesEmpty(nodes[n].children)

\* The field the call site of fn reads is absent (or empty) in the result r.
FieldAbsent(r, fn) ==
    CASE fn \in {"FPDF_GetMetaText", "FPDF_GetPageLabel", "FPDFText_GetFontInfo"} ->
            r.value = None
      [] fn = "FPDFText_GetBoundedText" -> r.value = << >>
      [] fn = "FPDFSignatureObj_GetContents" -> r.value.contents = None
      [] fn = "FPDFSignatureObj_GetByteRange" -> r.value.byte_range = None
      [] fn = "FPDFSignatureObj_GetSubFilter" -> r.value.sub_filter = None
      [] fn = "FPDFSignatureObj_GetReason" -> r.value.reason = None
      [] fn = "FPDFSignatureObj_GetTime" -> r.value.time = None
      [] fn = "FPDFAttachment_GetName" -> r.value.name = << >>
      [] fn = "FPDFAttachment_GetFile" -> r.value.data = << >>
      [] fn = "FPDFAction_GetURIPath" ->
            \A n \in 1 .. Len(r.value) : r.value[n].uri = None
      [] fn = "FPDFAction_GetFilePath" ->
            \A n \in 1 .. Len(r.value) : r.value[n].file_path = None
      [] fn = "FPDFBookmark_GetTitle" -> TitlesEmpty(r.value)

\* C9: at every call site of the two-phase buffer protocol, a size query that
\* reports 0 is followed by no second call and the field comes back absent or
\* empty, and a size query that reports s > 0 is followed by exactly one
\* second call, whose capacity is s.
C9_SecondCallForEverySize ==
    \A i \in 1 .. Len(calls) :
        IsSizeQuery(calls[i]) =>
            /\ calls[i].ret = 0 =>
                  /\ FillsOf(i) = {}
                  /\ result.status = "ok" => FieldAbsent(result, calls[i].fn)
            /\ calls[i].ret > 0 =>
                  /\ Cardinality(FillsOf(i)) = 1
                  /\ \A j \in FillsOf(i) : calls[j].cap = calls[i].ret

\* C9, amended: a size query that reports a size up to the call site's
\* threshold (0, or the size of the field's NUL terminator where the site
\* checks for it) is followed by no second call and the field comes back
\* absent or empty; one that reports a larger size s is followed by exactly
\* one second call, made right after it on the same object with capacity s.
C9_SecondCallAboveThreshold ==
    \A i \in 1 .. Len(calls) :
        IsSizeQuery(calls[i]) =>
            /\ calls[i].ret <= Threshold(calls[i].fn) =>
                  /\ FillsOf(i) = {}
                  /\ result.status = "ok" => FieldAbsent(result, calls[i].fn)
            /\ calls[i].ret > Threshold(calls[i].fn) =>
                  /\ FillsOf(i) = {i + 1}
                  /\ calls[i + 1].ref = calls[i].ref
                  /\ calls[i + 1].cap = calls[i].ret

\* get_signature has returned for a size of 2: the contents and the
\* sub-filter were read with a second call of capacity 2, the reason was not.
C9_Witness ==
    /\ result.op = "get_signature"
    /\ result.status = "ok"
    /\ \E i \in 1 .. Len(calls) :
          /\ calls[i].fn = "FPDFSignatureObj_GetSubFilter"
          /\ IsSizeQuery(calls[i]) /\ calls[i].ret = 2
          /\ FillsOf(i) = {i + 1} /\ calls[i + 1].cap = 2
    /\ \E i \in 1 .. Len(calls) :
          /\ calls[i].fn = "FPDFSignatureObj_GetReason"
          /\ IsSizeQuery(calls[i]) /\ calls[i].ret = 2
          /\ FillsOf(i) = {}
    /\ result.value.reason = None

\* C10: at every call site of the two-phase buffer protocol the buffer handed
\* to the second call is exactly as large, in bytes, as the capacity passed
\* with it, for every reported size (odd byte sizes of UTF-16 fields
\* included).
C10_BufferMatchesCapacity ==
    \A i \in 1 .. Len(calls) :
        IsFill(calls[i]) => calls[i].buf = calls[i].cap * UnitBytes(calls[i].fn)


\* ------------------------------------------------- decoding of text fields
\* The second call of fn in the log had capacity s.
Filled(fn, s) ==
    \E i \in 1 .. Len(calls) :
        calls[i].fn = fn /\ calls[i].buf >= 0 /\ calls[i].cap = s

\* The bytes of pattern pat, written into a buffer of s bytes, do not decode
\* as the text the call site of fn reads from them.
Undecodable(fn, s, pat) ==
    CASE fn \in {"FPDF_GetMetaText", "FPDF_GetPageLabel", "FPDFAttachment_GetName",
                 "FPDFBookmark_GetTitle"} ->
            LET buffer == U16Units(Written(pat, s), s \div 2)
            IN ~from_utf16(SubSeq(buffer, 1, TextLen(buffer, s \div 2))).ok
      [] fn = "FPDFSignatureObj_GetReason" ->
            ~from_utf16(U16Units(Written(pat, s), (s - 2) \div 2)).ok
      [] fn \in {"FPDFText_GetFontInfo", "FPDFSignatureObj_GetSubFilter",
                 "FPDFSignatureObj_GetTime", "FPDFAction_GetURIPath",
                 "FPDFAction_GetFilePath"} ->
            ~from_utf8(PopNul(Written(pat, s))).ok

\* The result in hand is the result r.
Returned(r) ==
    /\ result.op = r.op
    /\ result.status = r.status
    /\ result.err = r.err
    /\ result.status = "ok" => result.value = r.value

\* The result in hand is what the operation returns when the second call of
\* fn, of capacity s, is filled after pattern pat.
YieldedBy(fn, s, pat) ==
    CASE fn = "FPDF_GetMetaText" -> Returned(MetaTextResult(result.handle, s, pat))
      [] fn = "FPDF_GetPageLabel" -> Returned(PageLabelResult(result.handle, s, pat))
      [] fn = "FPDFText_GetFontInfo" -> Returned(FontInfoResult(result.handle, s, pat))
      [] fn = "FPDFAttachment_GetName" ->
            result.status = "ok" /\ result.value.name = AttachmentName(s, pat)
      [] fn = "FPDFBookmark_GetTitle" ->
            /\ result.status = "ok"
            /\ Len(result.value) > 0
            /\ result.value[1].title = read_bookmark_title(s, pat)
      [] fn = "FPDFSignatureObj_GetReason" ->
            result.status = "ok" /\ result.value.reason = SigReason(s, pat)
      [] fn = "FPDFSignatureObj_GetSubFilter" ->
            result.status = "ok" /\ result.value.sub_filter = SigSubFilter(s, pat)
      [] fn = "FPDFSignatureObj_GetTime" ->
            result.status = "ok" /\ result.value.time = SigTime(s, pat)
      [] fn = "FPDFAction_GetURIPath" ->
            /\ result.status = "ok"
            /\ \E n \in 1 .. Len(result.value) :
                  /\ result.value[n].action_type = 3
                  /\ result.value[n].uri = read_action_uri(s, pat)
      [] fn = "FPDFAction_GetFilePath" ->
            /\ result.status = "ok"
            /\ \E n \in 1 .. Len(result.value) :
                  /\ result.value[n].action_type \in {2, 4}
                  /\ result.value[n].file_path = read_action_file_path(s, pat)

\* The sized text fields: the call sites of the protocol that decode text.
TextFns ==
    ProtocolFns \ {"FPDFText_GetBoundedText", "FPDFSignatureObj_GetContents",
                   "FPDFSignatureObj_GetByteRange", "FPDFAttachment_GetFile"}

IsDecodeError(r) ==
    r.status = "err" /\ r.err \in {"UTF-16 decode error", "UTF-8 decode error"}

\* C11: when the bytes the native library fills in do not decode (invalid
\* UTF-16 or UTF-8), the operation returns a decode error, for every
\* variable-length text field: the sized fields, and the full and bounded
\* text, whose second call reports the number of units written.
C11_DecodeFailureIsAnError ==
    /\ \A fn \in TextFns, s \in 1 .. MaxSize, pat \in Patterns :
          Filled(fn, s) /\ Undecodable(fn, s, pat) /\ YieldedBy(fn, s, pat)
              => IsDecodeError(result)
    /\ \A s \in 1 .. MaxSize, w \in 1 .. MaxSize, pat \in Patterns :
          /\ result.op = "get_bounded_text"
          /\ \E i \in 1 .. Len(calls) :
                calls[i].buf >= 0 /\ calls[i].cap = s /\ calls[i].ret = w
          /\ w <= s
          /\ Returned(BoundedTextResult(result.handle, s, w, pat))
          /\ ~from_utf16(SubSeq(U16Units(Written(pat, 2 * w), w), 1,
                                TextLen(U16Units(Written(pat, 2 * w), w), w))).ok
          => IsDecodeError(result)
    /\ \A s \in 1 .. MaxSize, w \in 1 .. (MaxSize + 1), pat \in Patterns :
          /\ result.op = "get_full_text"
          /\ \E i \in 1 .. Len(calls) :
                calls[i].buf >= 0 /\ calls[i].cap = s /\ calls[i].ret = w
          /\ w >= s
          /\ Returned(FullTextResult(result.handle, s, w, pat))
          /\ ~from_utf16(SubSeq(U16Units(Written(pat, 2 * w), w), 1, s)).ok
          => IsDecodeError(result)


\* --------------------------------------------- uniformity of the call sites
Encoding(fn) ==
    IF fn \in {"FPDF_GetMetaText", "FPDF_GetPageLabel", "FPDFAttachment_GetName",
               "FPDFBookmark_GetTitle", "FPDFSignatureObj_GetReason"}
    THEN "UTF-16" ELSE "UTF-8"

\* The native calls the call site of fn makes for a reported size s.
SiteCalls(fn, s) ==
    CASE fn = "FPDF_GetMetaText" -> MetaTextCalls(0, s)
      [] fn = "FPDF_GetPageLabel" -> PageLabelCalls(0, s)
      [] fn = "FPDFText_GetFontInfo" -> FontInfoCalls(0, s)
      [] fn = "FPDFAttachment_GetName" -> AttachmentNameCalls(0, s)
      [] fn = "FPDFBookmark_GetTitle" -> BookmarkTitleCalls(0, s)
      [] fn = "FPDFSignatureObj_GetReason" -> SigReasonCalls(0, s)
      [] fn = "FPDFSignatureObj_GetSubFilter" -> SigSubFilterCalls(0, s)
      [] fn = "FPDFSignatureObj_GetTime" -> SigTimeCalls(0, s)
      [] fn = "FPDFAction_GetURIPath" -> ActionUriCalls(0, s)
      [] fn = "FPDFAction_GetFilePath" -> ActionFilePathCalls(0, s)

\* Absent, value or decode error, with the text of a value.
Classified(option) ==
    [class |-> IF option.some THEN "value" ELSE "absent", text |-> option.text]

ClassifiedResult(r) ==
    IF r.status = "err" THEN [class |-> "error", text |-> << >>]
    ELSE Classified(r.value)

\* What the call site of fn makes of a reported size s and the bytes of
\* pattern pat.
SiteField(fn, s, pat) ==
    CASE fn = "FPDF_GetMetaText" -> ClassifiedResult(MetaTextResult(0, s, pat))
      [] fn = "FPDF_GetPageLabel" -> ClassifiedResult(PageLabelResult(0, s, pat))
      [] fn = "FPDFText_GetFontInfo" -> ClassifiedResult(FontInfoResult(0, s, pat))
      [] fn = "FPDFAttachment_GetName" ->
            Classified(IF AttachmentName(s, pat) = << >> THEN None
                       ELSE Some(AttachmentName(s, pat)))
      [] fn = "FPDFBookmark_GetTitle" ->
            Classified(IF read_bookmark_title(s, pat) = << >> THEN None
                       ELSE Some(read_bookmark_title(s, pat)))
      [] fn = "FPDFSignatureObj_GetReason" -> Classified(SigReason(s, pat))
      [] fn = "FPDFSignatureObj_GetSubFilter" -> Classified(SigSubFilter(s, pat))
      [] fn = "FPDFSignatureObj_GetTime" -> Classified(SigTime(s, pat))
      [] fn = "FPDFAction_GetURIPath" -> Classified(read_action_uri(s, pat))
      [] fn = "FPDFAction_GetFilePath" -> Classified(read_action_file_path(s, pat))

\* C12: the protocol behaves identically at every call site: for the same
\* reported size and the same filled bytes, any call site of the same
\* encoding as the one that has just run skips the second call at the same
\* sizes, classifies the field the same way (absent, value or decode error)
\* and returns the same text (one trailing terminator stripped only when it
\* is present).
C12_CallSitesBehaveAlike ==
    \A i \in 1 .. Len(calls) :
        IsSizeQuery(calls[i]) /\ calls[i].fn \in TextFns /\ calls[i].ret >= 0 =>
            \A other \in TextFns :
                Encoding(other) = Encoding(calls[i].fn) =>
                    /\ (FillsOf(i) # {}) <=> (Len(SiteCalls(other, calls[i].ret)) = 2)
                    /\ \A pat \in Patterns :
                          FillsOf(i) # {} /\ YieldedBy(calls[i].fn, calls[i].ret, pat) =>
                              LET here == SiteField(calls[i].fn, calls[i].ret, pat)
                                  there == SiteField(other, calls[i].ret, pat)
                              IN here = there

\* ============================================================================
\* Saving a document and the page boxes
\* ============================================================================
\* Most invocations of the write callback during one native save.
MaxChunks == 2

\* The blocks a native save hands to the write callback: the context pointer
\* it passes back (null or not), the data pointer (null or not) and the bytes
\* behind the data pointer; size is the number of those bytes.
ChunkData == {<< >>, <<97>>, <<216>>, <<97, 216>>}
Chunks ==
    Enumerated({c \in [this_null : BOOLEAN, data_null : BOOLEAN, data : ChunkData] :
                    /\ ~(c.this_null /\ c.data_null)
                    /\ c.this_null \/ c.data_null => c.data = <<97>>})
ChunkLists == Enumerated(UNION {[1 .. n -> Chunks] : n \in 0 .. MaxChunks})

\* One invocation of write_block_callback, as an entry of the call log.
WriteBlock(doc, c) ==
    [fn |-> "write_block_callback", ref |-> doc, buf |-> -1, cap |-> Len(c.data),
     ret |-> 1, this_null |-> c.this_null, data_null |-> c.data_null, data |-> c.data]

\* ctx.buffer after write_block_callback ran on one block.
write_block_callback_Prepend(buffer, c) ==
    IF c.this_null \/ c.data_null \/ Len(c.data) = 0 THEN buffer
    ELSE c.data \o buffer

write_block_callback(buffer, c) ==
    IF c.this_null \/ c.data_null \/ Len(c.data) = 0 THEN buffer
    ELSE buffer \o c.data

\* ctx.buffer after the native save invoked the callback on each block in turn,
\* starting from Vec::new().
RECURSIVE SaveBuffer(_)
SaveBuffer(chunks) ==
    IF chunks = << >> THEN << >>
    ELSE write_block_callback(SaveBuffer(SubSeq(chunks, 1, Len(chunks) - 1)),
                              chunks[Len(chunks)])

\* The native function save_document calls for a version argument.
SaveFn(version) == IF version = "none" THEN "FPDF_SaveAsCopy" ELSE "FPDF_SaveWithVersion"

\* The native save and the callbacks it makes before it returns ok.
SaveCalls(doc, version, chunks, ok) ==
    << PlainCall(SaveFn(version), doc, ok) >> \o [i \in 1 .. Len(chunks) |-> WriteBlock(doc, chunks[i])]

save_document(h, version) ==
    /\ \/ /\ ~IsKind(h, "Document")
          /\ calls' = NoCalls
          /\ result' = HandleErr("save_document", h, "Invalid document handle")
       \/ /\ IsKind(h, "Document")
          /\ \E chunks \in ChunkLists, ok \in {0, 1} :
                /\ calls' = SaveCalls(handles[h].ref, version, chunks, ok)
                /\ result' = IF ok = 0
                             THEN Err("save_document", h, "Failed to save document")
                             ELSE Ok("save_document", h, SaveBuffer(chunks))
    /\ Frame

\* -------------------------------------------------------------- page boxes
\* Box kinds a caller passes (an i32): the five kinds and values around them.
BoxTypeArgs == {-1, 0, 1, 2, 3, 4, 5, 99}

\* The rectangles the native getters write: left, bottom, right, top.
Boxes == {<<0, 0, 1, 1>>, <<0, 0, 2, 3>>}

\* match box_type { 0 => page_get_media_box, ... }: the symbol each field was loaded from.
BoxGetter_CropForMedia(box_type) ==
    CASE box_type = 0 -> "FPDFPage_GetCropBox"
      [] box_type = 1 -> "FPDFPage_GetCropBox"
      [] box_type = 2 -> "FPDFPage_GetBleedBox"
      [] box_type = 3 -> "FPDFPage_GetTrimBox"
      [] box_type = 4 -> "FPDFPage_GetArtBox"
      [] OTHER -> ""

BoxGetter(box_type) ==
    CASE box_type = 0 -> "FPDFPage_GetMediaBox"
      [] box_type = 1 -> "FPDFPage_GetCropBox"
      [] box_type = 2 -> "FPDFPage_GetBleedBox"
      [] box_type = 3 -> "FPDFPage_GetTrimBox"
      [] box_type = 4 -> "FPDFPage_GetArtBox"
      [] OTHER -> ""

BoxSetter(box_type) ==
    CASE box_type = 0 -> "FPDFPage_SetMediaBox"
      [] box_type = 1 -> "FPDFPage_SetCropBox"
      [] box_type = 2 -> "FPDFPage_SetBleedBox"
      [] box_type = 3 -> "FPDFPage_SetTrimBox"
      [] box_type = 4 -> "FPDFPage_SetArtBox"
      [] OTHER -> ""

\* Err(format!("Invalid box type: {}", box_type))
InvalidBoxType(op, h, box_type) == ErrCode(op, h, "Invalid box type", box_type)

get_page_box(h, box_type) ==
    /\ \/ /\ BoxGetter(box_type) = ""
          /\ calls' = NoCalls
          /\ result' = InvalidBoxType("get_page_box", h, box_type)
       \/ /\ BoxGetter(box_type) # ""
          /\ ~IsKind(h, "Page")
          /\ calls' = NoCalls
          /\ result' = HandleErr("get_page_box", h, "Invalid page handle")
       \/ /\ BoxGetter(box_type) # ""
          /\ IsKind(h, "Page")
          /\ \E ok \in {0, 1}, box \in Boxes :
                /\ calls' = << PlainCall(BoxGetter(box_type), handles[h].ref, ok) >>
                /\ result' = IF ok = 0 THEN Ok("get_page_box", h, None)
                             ELSE Ok("get_page_box", h, Some(box))
    /\ Frame

set_page_box(h, box_type) ==
    /\ \/ /\ BoxSetter(box_type) = ""
          /\ calls' = NoCalls
          /\ result' = InvalidBoxType("set_page_box", h, box_type)
       \/ /\ BoxSetter(box_type) # ""
          /\ ~IsKind(h, "Page")
          /\ calls' = NoCalls
          /\ result' = HandleErr("set_page_box", h, "Invalid page handle")
       \/ /\ BoxSetter(box_type) # ""
          /\ IsKind(h, "Page")
          /\ calls' = << PlainCall(BoxSetter(box_type), handles[h].ref, 0) >>
          /\ result' = Ok("set_page_box", h, 0)
    /\ Frame

NextDoc ==
    \/ \E pw \in Passwords : load_document(pw)
    \/ \E h \in HandleArgs : load_page(h)
    \/ AfterOpen /\ \E h \in HandleArgs, version \in {"none", "some"} : save_document(h, version)
    \/ AfterOpen /\ \E h \in HandleArgs, box_type \in BoxTypeArgs : get_page_box(h, box_type)
    \/ AfterOpen /\ \E h \in HandleArgs, box_type \in BoxTypeArgs : set_page_box(h, box_type)

SpecDoc == Init /\ [][NextDoc]_vars

\* ---------------------------------------------------------------------------
\* The blocks the native save pushed into the context of this save, in the
\* order of the callback's invocations.
PushedBlocks(cs) ==
    SelectSeq(cs, LAMBDA c : c.fn = "write_block_callback" /\ ~c.this_null /\ ~c.data_null)

RECURSIVE Concatenation(_)
Concatenation(blocks) ==
    IF blocks = << >> THEN << >>
    ELSE blocks[1].data \o Concatenation(Tail(blocks))

\* C13: save_document on an open document returns, when the native save
\* reports success, exactly the concatenation of the blocks pushed to the
\* write callback in call order (no bytes when the callback was never
\* invoked), and an error without bytes when the native save reports failure;
\* the handle table is the same afterwards in both cases.
C13_SaveReturnsPushedBlocks ==
    [][result'.op = "save_document" /\ IsKind(result'.handle, "Document") =>
              /\ handles' = handles /\ next_handle' = next_handle /\ doc_data' = doc_data
              /\ calls'[1].fn \in {"FPDF_SaveAsCopy", "FPDF_SaveWithVersion"}
              /\ calls'[1].ref = handles[result'.handle].ref
              /\ calls'[1].ret # 0 =>
                    /\ result'.status = "ok"
                    /\ result'.value = Concatenation(PushedBlocks(calls'))
              /\ calls'[1].ret = 0 => result'.status = "err"]_vars

\* A save whose callback was invoked twice with different blocks.
C13_Witness ==
    /\ result.op = "save_document"
    /\ result.status = "ok"
    /\ Len(PushedBlocks(calls)) = 2
    /\ result.value = <<97, 216, 97>>

\* C14: get_page_box and set_page_box with a box kind outside 0..4 return a
\* validation error before any native call, whether or not the page handle is
\* valid; with a kind in 0..4 and a page handle they call the getter or setter
\* of exactly that kind (0 media, 1 crop, 2 bleed, 3 trim, 4 art).
C14_BoxKindValidatedFirst ==
    [][\A h \in HandleArgs, box_type \in BoxTypeArgs :
          /\ result'.op = "get_page_box" /\ get_page_box(h, box_type) =>
                /\ box_type \notin 0 .. 4 =>
                      /\ calls' = NoCalls
                      /\ result'.status = "err" /\ result'.err = "Invalid box type"
                      /\ result'.cause = ""
                /\ box_type \in 0 .. 4 /\ IsKind(h, "Page") =>
                      /\ Len(calls') = 1
                      /\ calls'[1].ref = handles[h].ref
                      /\ calls'[1].fn = <<"FPDFPage_GetMediaBox", "FPDFPage_GetCropBox",
                                          "FPDFPage_GetBleedBox", "FPDFPage_GetTrimBox",
                                          "FPDFPage_GetArtBox">>[box_type + 1]
          /\ result'.op = "set_page_box" /\ set_page_box(h, box_type) =>
                /\ box_type \notin 0 .. 4 =>
                      /\ calls' = NoCalls
                      /\ result'.status = "err" /\ result'.err = "Invalid box type"
                      /\ result'.cause = ""
                /\ box_type \in 0 .. 4 /\ IsKind(h, "Page") =>
                      /\ Len(calls') = 1
                      /\ calls'[1].ref = handles[h].ref
                      /\ calls'[1].fn = <<"FPDFPage_SetMediaBox", "FPDFPage_SetCropBox",
                                          "FPDFPage_SetBleedBox", "FPDFPage_SetTrimBox",
                                          "FPDFPage_SetArtBox">>[box_type + 1]]_vars

\* An invalid box kind asked of a handle that is no page.
C14_Witness ==
    /\ result.op = "get_page_box"
    /\ result.err = "Invalid box type"
    /\ result.code = 99
    /\ ~IsKind(result.handle, "Page")

\* ============================================================================
\* The outline walk on well-formed and malformed outlines
\* ============================================================================
\* Malformed outlines in which a chain of first-child links comes back to a
\* bookmark of the chain: bookmark n is the only child of bookmark n - 1 up to
\* some bookmark, whose first child is a bookmark of the chain again.  No
\* bookmark of them has a destination.
DeepOutlines ==
    Enumerated(
        {o \in Outlines :
            /\ \A n \in Nodes : o.next_sibling[n] = 0
            /\ o.first_child[0] = 1
            /\ \E last \in Nodes :
                  /\ \A n \in 1 .. last - 1 : o.first_child[n] = n + 1
                  /\ o.first_child[last] \in 1 .. last
                  /\ \A n \in Nodes : n > last => o.first_child[n] = 0
            /\ \A n \in Nodes : ~o.dest[n]})

\* Malformed outlines in which the chain of next-sibling links of the top
\* level comes back to a bookmark of the chain.
RingOutlines ==
    Enumerated(
        {o \in Outlines :
            /\ \A n \in Nodes : o.first_child[n] = 0
            /\ o.first_child[0] = 1
            /\ \E last \in Nodes :
                  /\ \A n \in 1 .. last - 1 : o.next_sibling[n] = n + 1
                  /\ o.next_sibling[last] \in 1 .. last
                  /\ \A n \in Nodes : n > last => o.next_sibling[n] = 0
            /\ \A n \in Nodes : ~o.dest[n]})

\* The outlines of the documents a caller walks.
WalkedOutlines == TreeOutlines \cup DeepOutlines \cup RingOutlines

NextOutline ==
    \/ \E pw \in Passwords : load_document(pw)
    \/ AfterOpen /\ \E h \in HandleArgs : get_bookmarks(h, WalkedOutlines)

SpecOutline == Init /\ [][NextOutline]_vars

\* ---------------------------------------------------------------------------
\* The nodes one level below the given nodes of a returned tree.
RECURSIVE ChildrenOf(_)
ChildrenOf(nodes) ==
    IF nodes = << >> THEN << >>
    ELSE nodes[1].children \o ChildrenOf(Tail(nodes))

\* The nodes n levels below the given nodes.
RECURSIVE NodesBelow(_, _)
NodesBelow(n, nodes) ==
    IF n = 0 THEN nodes
    ELSE IF n = 1 THEN ChildrenOf(nodes)
    ELSE CHOOSE lower \in {NodesBelow(n \div 2, half) :
                              half \in {NodesBelow(n - n \div 2, nodes)}} : TRUE

\* C15: the tree get_bookmarks returns is at most 100 levels deep, the top
\* level counting as level 1: a branch that goes deeper is returned without
\* children.
C15_AtMostCapLevels ==
    result.op = "get_bookmarks" /\ result.status = "ok" =>
        NodesBelow(MAX_BOOKMARK_DEPTH, result.value) = << >>

\* ---------------------------------------------------------------------------
\* The outline as the native library described it in the calls of the walk.
Answer(cs, fn, bookmark) ==
    LET i == CHOOSE i \in 1 .. Len(cs) : cs[i].fn = fn /\ cs[i].ref = bookmark
    IN cs[i].ret

\* The bookmarks in the order the walk asked for their destinations.
VisitOrder(cs) ==
    LET asked == SelectSeq(cs, LAMBDA c : c.fn = "FPDFBookmark_GetDest")
    IN [i \in 1 .. Len(asked) |-> asked[i].ref]

\* No bookmark was visited twice: the part of the outline walked is a tree.
WalkedATree(cs) ==
    \A i, j \in 1 .. Len(VisitOrder(cs)) : i # j => VisitOrder(cs)[i] # VisitOrder(cs)[j]

\* The tree of the outline under a parent, and from a bookmark along its
\* next siblings: page index and children of every bookmark.
RECURSIVE OutlineTree(_, _)
RECURSIVE OutlineSiblings(_, _)
OutlineTree(cs, parent) == OutlineSiblings(cs, Answer(cs, "FPDFBookmark_GetFirstChild", parent))

OutlineSiblings(cs, bookmark) ==
    IF bookmark = 0 THEN << >>
    ELSE << [page_index |-> IF Answer(cs, "FPDFBookmark_GetDest", bookmark) # 0
                            THEN Answer(cs, "FPDFDest_GetDestPageIndex", bookmark)
                            ELSE -1,
             children |-> OutlineTree(cs, bookmark)] >>
            \o OutlineSiblings(cs, Answer(cs, "FPDFBookmark_GetNextSibling", bookmark))

\* The bookmarks of the outline in depth-first pre-order.
RECURSIVE PreOrder(_, _)
RECURSIVE PreOrderSiblings(_, _)
PreOrder(cs, parent) == PreOrderSiblings(cs, Answer(cs, "FPDFBookmark_GetFirstChild", parent))

PreOrderSiblings(cs, bookmark) ==
    IF bookmark = 0 THEN << >>
    ELSE << bookmark >> \o PreOrder(cs, bookmark)
            \o PreOrderSiblings(cs, Answer(cs, "FPDFBookmark_GetNextSibling", bookmark))

\* A returned tree without its titles.
RECURSIVE Shape(_)
Shape(nodes) ==
    [i \in 1 .. Len(nodes) |->
        [page_index |-> nodes[i].page_index, children |-> Shape(nodes[i].children)]]

C17_WalkAlwaysReturns ==
    result.op = "get_bookmarks" => result.status # "hang"

\* ============================================================================
\* Link resolution
\* ============================================================================
\* The link lists of the pages a caller resolves: any link at the end, after
\* links that are bare or for which the enumerator left a null pointer.
ResolvedLinkLists ==
    Enumerated(
        {links \in LinkLists :
            \A i \in 1 .. Len(links) - 1 : links[i].is_null \/ IsBare(links[i])})

NextLinks ==
    \/ \E pw \in Passwords : load_document(pw)
    \/ \E h \in HandleArgs : load_page(h)
    \/ AfterOpen /\ \E hp \in HandleArgs, hd \in HandleArgs : get_links(hp, hd, ResolvedLinkLists)

SpecLinks == Init /\ [][NextLinks]_vars

\* ---------------------------------------------------------------------------
\* The positions in the call log at which the enumerator yielded a link.
YieldedAt(cs) ==
    SelectSeq([i \in 1 .. Len(cs) |-> i],
              LAMBDA i : cs[i].fn = "FPDFLink_Enumerate" /\ cs[i].ret # 0 /\ ~cs[i].link_null)

\* The calls made for the k-th link the enumerator yielded: those up to the
\* next call of the enumerator.
LinkCallsOf(cs, k) ==
    LET start == YieldedAt(cs)[k]
        next == CHOOSE j \in start + 1 .. Len(cs) :
                    /\ cs[j].fn = "FPDFLink_Enumerate"
                    /\ \A m \in start + 1 .. j - 1 : cs[m].fn # "FPDFLink_Enumerate"
    IN SubSeq(cs, start + 1, next - 1)

Asked(seg, fn) == \E j \in 1 .. Len(seg) : seg[j].fn = fn

\* What the native function answered for the link (0 when it was not asked).
Answered(seg, fn) ==
    IF Asked(seg, fn) THEN seg[CHOOSE j \in 1 .. Len(seg) : seg[j].fn = fn].ret ELSE 0

\* C18: for every link get_links returns, the destination is the link's
\* direct destination when it has one, otherwise the destination of its
\* action when it has an action, otherwise none; the URI is fetched only for
\* action type 3 and the file path only for action types 2 and 4; without a
\* destination has_dest is false, the page index -1 and the location flags
\* are all false.
C18_LinkResolution ==
    result.op = "get_links" /\ result.status = "ok" =>
        \A k \in 1 .. Len(result.value) :
            LET seg == LinkCallsOf(calls, k)
                d == result.value[k]
                direct == Answered(seg, "FPDFLink_GetDest") # 0
                has_action == Answered(seg, "FPDFLink_GetAction") # 0
                type == Answered(seg, "FPDFAction_GetType")
                fallback == Answered(seg, "FPDFAction_GetDest") # 0
            IN /\ Asked(seg, "FPDFAction_GetDest") <=> (~direct /\ has_action)
               /\ d.has_dest <=> (direct \/ fallback)
               /\ direct => d.dest_page_index = DirectDestPage
               /\ ~direct /\ fallback => d.dest_page_index = ActionDestPage
               /\ Asked(seg, "FPDFAction_GetURIPath") <=> (has_action /\ type = 3)
               /\ Asked(seg, "FPDFAction_GetFilePath") <=> (has_action /\ type \in {2, 4})
               /\ d.uri.some => type = 3
               /\ d.file_path.some => type \in {2, 4}
               /\ ~d.has_dest =>
                     d.dest_page_index = -1 /\ ~d.has_x /\ ~d.has_y /\ ~d.has_zoom

\* A link without direct destination whose action has one, after another link.
C18_Witness ==
    /\ result.op = "get_links"
    /\ result.status = "ok"
    /\ Len(result.value) = 2
    /\ result.value[2].has_dest
    /\ result.value[2].dest_page_index = ActionDestPage
    /\ result.value[2].action_type = 3
    /\ result.value[2].uri.some

\* C19: get_links returns one descriptor for every link the enumerator
\* yields, in enumeration order, the descriptor at position i carrying index
\* i (counted from 0), and the loop ends with the first call in which the
\* enumerator reports no more links.
C19_IndexedInEnumerationOrder ==
    result.op = "get_links" /\ result.status = "ok" =>
        /\ Len(result.value) = Len(YieldedAt(calls))
        /\ \A k \in 1 .. Len(result.value) :
              /\ result.value[k].index = k - 1
              /\ result.value[k].has_action
                    <=> Answered(LinkCallsOf(calls, k), "FPDFLink_GetAction") # 0
              /\ result.value[k].action_type
                    = Answered(LinkCallsOf(calls, k), "FPDFAction_GetType")
        /\ calls[Len(calls)].fn = "FPDFLink_Enumerate"
        /\ \A i \in 1 .. Len(calls) :
              calls[i].fn = "FPDFLink_Enumerate" => (calls[i].ret = 0 <=> i = Len(calls))

\* Two links returned, the second one with an action.
C19_Witness ==
    /\ result.op = "get_links"
    /\ result.status = "ok"
    /\ Len(result.value) = 2
    /\ ~result.value[1].has_action
    /\ result.value[2].has_action
    /\ result.value[2].index = 1

\* ============================================================================
\* Loading the library
\* ============================================================================
\* A symbol load resolves with load_sym!, and one it resolves with try_load_sym!.
Required(name) == [name |-> name, macro |-> "load_sym"]
Optional(name) == [name |-> name, macro |-> "try_load_sym"]

\* The symbols load resolves, in the order of the fields of the struct
\* expression.
Symbols ==
    << Required("FPDF_InitLibraryWithConfig"),
       Required("FPDF_DestroyLibrary"),
       Required("FPDF_GetLastError"),
       Required("FPDF_LoadMemDocument"),
       Required("FPDF_CloseDocument"),
       Required("FPDF_GetPageCount"),
       Required("FPDF_LoadPage"),
       Required("FPDF_ClosePage"),
       Required("FPDF_GetPageWidthF"),
       Required("FPDF_GetPageHeightF"),
       Required("FPDFText_LoadPage"),
       Required("FPDFText_ClosePage"),
       Required("FPDFText_CountChars"),
       Required("FPDFText_GetText"),
       Required("FPDFText_GetFontSize"),
       Required("FPDFText_GetFontWeight"),
       Required("FPDFText_GetFontInfo"),
       Optional("FPDFText_GetTextRenderMode"),
       Required("FPDFBitmap_CreateEx"),
       Required("FPDFBitmap_FillRect"),
       Required("FPDFBitmap_Destroy"),
       Required("FPDFBitmap_GetBuffer"),
       Required("FPDFBitmap_GetStride"),
       Required("FPDF_RenderPageBitmap"),
       Required("FPDF_GetMetaText"),
       Required("FPDF_GetFileVersion"),
       Required("FPDF_GetDocPermissions"),
       Required("FPDF_GetDocUserPermissions"),
       Required("FPDFDoc_GetPageMode"),
       Required("FPDF_GetSecurityHandlerRevision"),
       Required("FPDFCatalog_IsTagged"),
       Required("FPDF_GetPageLabel"),
       Required("FPDFPage_GetMediaBox"),
       Required("FPDFPage_GetCropBox"),
       Required("FPDFPage_GetBleedBox"),
       Required("FPDFPage_GetTrimBox"),
       Required("FPDFPage_GetArtBox"),
       Required("FPDFPage_SetMediaBox"),
       Required("FPDFPage_SetCropBox"),
       Required("FPDFPage_SetBleedBox"),
       Required("FPDFPage_SetTrimBox"),
       Required("FPDFPage_SetArtBox"),
       Required("FPDF_GetSignatureCount"),
       Required("FPDF_GetSignatureObject"),
       Required("FPDFSignatureObj_GetContents"),
       Required("FPDFSignatureObj_GetByteRange"),
       Required("FPDFSignatureObj_GetSubFilter"),
       Required("FPDFSignatureObj_GetReason"),
       Required("FPDFSignatureObj_GetTime"),
       Required("FPDFSignatureObj_GetDocMDPPermission"),
       Required("FPDFDoc_GetAttachmentCount"),
       Required("FPDFDoc_GetAttachment"),
       Required("FPDFAttachment_GetName"),
       Required("FPDFAttachment_GetFile"),
       Required("FPDF_ImportPages"),
       Required("FPDF_ImportPagesByIndex"),
       Required("FPDF_ImportNPagesToOne"),
       Required("FPDF_CopyViewerPreferences"),
       Required("FPDFBookmark_GetFirstChild"),
       Required("FPDFBookmark_GetNextSibling"),
       Required("FPDFBookmark_GetTitle"),
       Required("FPDFBookmark_GetCount"),
       Required("FPDFBookmark_GetDest"),
       Required("FPDFBookmark_GetAction"),
       Required("FPDFDest_GetDestPageIndex"),
       Required("FPDFAction_GetType"),
       Required("FPDFLink_Enumerate"),
       Required("FPDFLink_GetAnnotRect"),
       Required("FPDFLink_GetAction"),
       Required("FPDFLink_GetDest"),
       Required("FPDFAction_GetDest"),
       Required("FPDFAction_GetURIPath"),
       Required("FPDFAction_GetFilePath"),
       Required("FPDFDest_GetView"),
       Required("FPDFDest_GetLocationInPage"),
       Required("FPDFPage_GetAnnotCount"),
       Required("FPDFPage_GetAnnot"),
       Required("FPDFPage_CloseAnnot"),
       Required("FPDFAnnot_GetSubtype"),
       Required("FPDFAnnot_GetRect"),
       Required("FPDFAnnot_GetColor"),
       Required("FPDFPage_CreateAnnot"),
       Required("FPDFPage_RemoveAnnot"),
       Required("FPDFAnnot_SetRect"),
       Required("FPDFAnnot_SetColor"),
       Required("FPDFAnnot_GetFlags"),
       Required("FPDFAnnot_SetFlags"),
       Required("FPDFAnnot_SetStringValue"),
       Required("FPDFAnnot_SetBorder"),
       Required("FPDFAnnot_SetAttachmentPoints"),
       Required("FPDFAnnot_AppendAttachmentPoints"),
       Required("FPDFAnnot_SetURI"),
       Required("FPDFText_GetUnicode"),
       Required("FPDFText_IsGenerated"),
       Required("FPDFText_IsHyphen"),
       Required("FPDFText_HasUnicodeMapError"),
       Required("FPDFText_GetCharAngle"),
       Required("FPDFText_GetCharOrigin"),
       Required("FPDFText_GetCharBox"),
       Required("FPDFText_GetLooseCharBox"),
       Required("FPDFText_GetCharIndexAtPos"),
       Required("FPDFText_GetFillColor"),
       Required("FPDFText_GetStrokeColor"),
       Required("FPDFText_GetMatrix"),
       Required("FPDFText_FindStart"),
       Required("FPDFText_FindNext"),
       Required("FPDFText_FindPrev"),
       Required("FPDFText_FindClose"),
       Required("FPDFText_GetSchResultIndex"),
       Required("FPDFText_GetSchCount"),
       Required("FPDFText_CountRects"),
       Required("FPDFText_GetRect"),
       Required("FPDFText_GetBoundedText"),
       Required("FPDFPage_GetRotation"),
       Required("FPDFPage_SetRotation"),
       Required("FPDFPage_HasTransparency"),
       Required("FPDFPage_Flatten"),
       Required("FPDFPage_GenerateContent"),
       Required("FPDF_DeviceToPage"),
       Required("FPDF_PageToDevice"),
       Required("FPDF_SaveAsCopy"),
       Required("FPDF_SaveWithVersion") >>

SymbolNames == Enumerated({Symbols[i].name : i \in 1 .. Len(Symbols)})

\* What the library at the path exports: every symbol but these.  Libraries
\* that lack up to two of the symbols are tried.
MissingSets ==
    Enumerated({{}} \cup {{a, b} : a \in SymbolNames, b \in SymbolNames})

\* Library::new(path): whether the library could be opened, and for an opened
\* library the symbols it lacks.
LibraryNew(can_open, missing) ==
    [fn |-> "Library::new", ref |-> 0, buf |-> -1, cap |-> 0, ret |-> Flag(can_open),
     missing |-> missing]

\* lib.get(name)
LibraryGet(name, missing) ==
    [fn |-> "Library::get", ref |-> 0, buf |-> -1, cap |-> 0,
     ret |-> Flag(name \notin missing), symbol |-> name]

\* Whether load goes on after resolving symbol s: load_sym! returns the error
\* of a symbol that is not found, try_load_sym! records None.
Resolves_AllRequired(s, missing) == s.name \notin missing

Resolves(s, missing) == s.macro = "try_load_sym" \/ s.name \notin missing

\* The position of the first symbol at which load returns, Len(Symbols) + 1
\* when there is none.
FirstFailure(missing) ==
    LET failing == {i \in 1 .. Len(Symbols) : ~Resolves(Symbols[i], missing)}
    IN IF failing = {} THEN Len(Symbols) + 1
       ELSE CHOOSE i \in failing : \A j \in failing : i <= j

\* The calls of load: the symbols are resolved up to the first failure.
LoadCalls(can_open, missing, failure) ==
    IF ~can_open THEN << LibraryNew(FALSE, {}) >>
    ELSE << LibraryNew(TRUE, missing) >>
            \o [i \in 1 .. (IF failure > Len(Symbols) THEN Len(Symbols) ELSE failure) |->
                    LibraryGet(Symbols[i].name, missing)]

\* Err(format!("Failed to load symbol {}: {}", $name, e))
SymbolErr(name) ==
    [op |-> "load", handle |-> NoHandle, status |-> "err", err |-> "Failed to load symbol",
     code |-> -1, value |-> 0, cause |-> "", symbol |-> name]

\* PdfiumLibrary::load, called by a caller that holds no library.
load(can_open, missing) ==
    /\ ~library.loaded
    /\ \E failure \in {FirstFailure(missing)} :
          /\ calls' = LoadCalls(can_open, missing, failure)
          /\ \/ /\ ~can_open
                /\ result' = Err("load", NoHandle, "Failed to load library")
                /\ UNCHANGED <<handles, next_handle, doc_data, library>>
             \/ /\ can_open
                /\ failure <= Len(Symbols)
                /\ result' = SymbolErr(Symbols[failure].name)
                /\ UNCHANGED <<handles, next_handle, doc_data, library>>
             \/ /\ can_open
                /\ failure > Len(Symbols)
                /\ result' = Ok("load", NoHandle, 0)
                /\ library' = Library("FPDFText_GetTextRenderMode" \notin missing)
                /\ handles' = << >>
                /\ next_handle' = 1
                /\ doc_data' = << >>
    /\ UNCHANGED <<native, issued, closed, inner>>

\* The caller before it has loaded a library.
InitLoad ==
    /\ handles = << >>
    /\ next_handle = 0
    /\ doc_data = << >>
    /\ native = << >>
    /\ calls = NoCalls
    /\ result = Ok("start", NoHandle, 0)
    /\ issued = << >>
    /\ closed = {}
    /\ library = NoLibrary
    /\ inner = NoCaller

\* The caller loads one library, and uses the bridge when that succeeded.
NextLoad ==
    \/ result.op = "start" /\ load(FALSE, {})
    \/ result.op = "start" /\ \E missing \in MissingSets : load(TRUE, missing)
    \/ library.loaded /\ \E pw \in Passwords : load_document(pw)
    \/ library.loaded /\ \E h \in HandleArgs : close_document(h)
    \/ library.loaded /\ \E h \in HandleArgs : load_page(h)
    \/ library.loaded /\ \E h \in HandleArgs : close_page(h)

SpecLoad == InitLoad /\ [][NextLoad]_vars

\* ---------------------------------------------------------------------------
\* C20: load succeeds exactly when the library can be opened and exports
\* every mandatory symbol.  A library that cannot be opened fails with a load
\* error; a library that lacks one mandatory symbol fails with an error that
\* names that symbol; the optional symbol FPDFText_GetTextRenderMode is never
\* needed for the load to succeed.
C20_LoadNeedsMandatorySymbols ==
    result.op = "load" =>
        LET opened == calls[1].ret # 0
            lacking == calls[1].missing \ {"FPDFText_GetTextRenderMode"}
        IN /\ result.status = "ok" <=> (opened /\ lacking = {})
           /\ ~opened => result.status = "err" /\ result.err = "Failed to load library"
           /\ opened /\ lacking # {} =>
                 /\ result.err = "Failed to load symbol"
                 /\ result.symbol \in lacking
           /\ result.status = "ok" =>
                 /\ library.loaded
                 /\ library.text_get_text_render_mode
                        <=> "FPDFText_GetTextRenderMode" \notin calls[1].missing

\* A library without the optional symbol was loaded.
C20_Witness ==
    /\ result.op = "load"
    /\ result.status = "ok"
    /\ calls[1].missing = {"FPDFText_GetTextRenderMode"}
    /\ ~library.text_get_text_render_mode

\* ---------------------------------------------------------------------------
\* get_char_render_mode: the one operation behind an optional symbol.
\* FPDF_TEXT_RENDERMODE values the native function can answer with.
RenderModes == {-1, 0, 1, 2}
CharIndexArgs == {-1, 0}

\* The call through the optional function pointer, when it was resolved.
RenderModeCall(tp, char_index, mode) ==
    [fn |-> "FPDFText_GetTextRenderMode", ref |-> tp, buf |-> -1, cap |-> 0,
     ret |-> mode, index |-> char_index]

RenderModeCalls(tp, char_index, mode) ==
    IF library.text_get_text_render_mode
    THEN << RenderModeCall(tp, char_index, mode) >>
    ELSE NoCalls

\* match &self.text_get_text_render_mode: Some(f) => f(..), None => 0
RenderMode_Native(mode) == mode

RenderMode(mode) ==
    IF library.text_get_text_render_mode THEN mode ELSE 0

get_char_render_mode(h, char_index) ==
    /\ \/ /\ ~IsKind(h, "TextPage")
          /\ calls' = NoCalls
          /\ result' = HandleErr("get_char_render_mode", h, "Invalid text page handle")
       \/ /\ IsKind(h, "TextPage")
          /\ \E mode \in RenderModes :
                /\ calls' = RenderModeCalls(handles[h].ref, char_index, mode)
                /\ result' = Ok("get_char_render_mode", h, RenderMode(mode))
    /\ Frame

\* The libraries the caller of this part tries: a complete one, one without
\* the optional symbol, one without a mandatory symbol.
ModeLibraries == {{}, {"FPDFText_GetTextRenderMode"}, {"FPDF_LoadPage"}}

NextMode ==
    \/ result.op = "start" /\ load(FALSE, {})
    \/ result.op = "start" /\ \E missing \in ModeLibraries : load(TRUE, missing)
    \/ library.loaded /\ \E pw \in Passwords : load_document(pw)
    \/ library.loaded /\ \E h \in HandleArgs : load_page(h)
    \/ library.loaded /\ \E h \in HandleArgs : load_text_page(h)
    \/ library.loaded /\ \E h \in HandleArgs : close_text_page(h)
    \/ library.loaded /\ \E h \in HandleArgs, char_index \in CharIndexArgs :
                            get_char_render_mode(h, char_index)

SpecMode == InitLoad /\ [][NextMode]_vars

\* C21: without the optional symbol get_char_render_mode answers 0 (fill) for
\* every text-page handle and makes no native call; with the symbol it makes
\* one call on the text page and answers what that call returned; for a
\* handle that is unknown or of another kind it fails with a handle error and
\* no native call, whether the symbol is there or not.
C21_RenderModeFallback ==
    result.op = "get_char_render_mode" =>
        IF IsKind(result.handle, "TextPage")
        THEN /\ result.status = "ok"
             /\ ~library.text_get_text_render_mode =>
                   calls = NoCalls /\ result.value = 0
             /\ library.text_get_text_render_mode =>
                   /\ Len(calls) = 1
                   /\ calls[1].fn = "FPDFText_GetTextRenderMode"
                   /\ calls[1].ref = handles[result.handle].ref
                   /\ result.value = calls[1].ret
        ELSE /\ IsHandleErr(result)
             /\ result.err = "Invalid text page handle"
             /\ calls = NoCalls

\* The fallback answered for a text page of a library without the symbol.
C21_Witness ==
    /\ result.op = "get_char_render_mode"
    /\ IsKind(result.handle, "TextPage")
    /\ ~library.text_get_text_render_mode
    /\ result.value = 0

\* ---------------------------------------------------------------------------
\* Callers sharing one NativePdfium.  Every binding method takes the library
\* out of the RefCell first (borrow_mut for the operations on &mut self,
\* borrow for those on &self) and keeps the guard until it returns; the
\* operations are taken here one statement at a time.

\* The guards the other callers hold.
OtherGuards(c) == {inner[d].guard : d \in Callers \ {c}}

\* RefCell: a mutable borrow needs the cell unborrowed, a shared borrow needs
\* it not mutably borrowed.
CanBorrowMut_Unchecked(c) == TRUE

CanBorrowMut(c) == OtherGuards(c) = {"none"}

CanBorrow(c) == "mut" \notin OtherGuards(c)

\* The panic of a refused borrow: the call ends before it reaches the library.
Panic(op, h, msg) ==
    [op |-> op, handle |-> h, status |-> "panic", err |-> msg, code |-> -1,
     value |-> 0, cause |-> ""]

\* The caller enters an operation with its guard; it returns and drops it.
Enter(c, op, h, guard) ==
    [inner EXCEPT ![c] = [Idle EXCEPT !.pc = op, !.op = op, !.h = h, !.guard = guard]]

Return(c) == [inner EXCEPT ![c] = Idle]

\* self.inner.borrow_mut()
borrow_mut(c, op, h) ==
    /\ inner[c].pc = "idle"
    /\ \/ /\ CanBorrowMut(c)
          /\ inner' = Enter(c, op, h, "mut")
          /\ UNCHANGED <<calls, result>>
       \/ /\ ~CanBorrowMut(c)
          /\ calls' = NoCalls
          /\ result' = Panic(op, h, "already borrowed: BorrowMutError")
          /\ UNCHANGED inner
    /\ UNCHANGED <<handles, next_handle, doc_data, native, issued, closed, library>>

\* self.inner.borrow()
borrow(c, h) ==
    /\ inner[c].pc = "idle"
    /\ \/ /\ CanBorrow(c)
          /\ inner' = Enter(c, "get_page_count", h, "shared")
          /\ UNCHANGED <<calls, result>>
       \/ /\ ~CanBorrow(c)
          /\ calls' = NoCalls
          /\ result' = Panic("get_page_count", h, "already mutably borrowed: BorrowError")
          /\ UNCHANGED inner
    /\ UNCHANGED <<handles, next_handle, doc_data, native, issued, closed, library>>

\* load_document: the native load of the copied bytes.
load_document_native(c) ==
    /\ inner[c].pc = "load_document"
    /\ \/ /\ \E code \in 0 .. MaxErrCode :
                /\ calls' = << Call("FPDF_LoadMemDocument", 0, -1, 0, 0),
                               Call("FPDF_GetLastError", 0, -1, 0, code) >>
                /\ result' = LoadDocumentFailure(code)
          /\ inner' = Return(c)
          /\ UNCHANGED native
       \/ /\ native' = NativeCreate("Document", 0, DataCopy)
          /\ inner' = [inner EXCEPT ![c].pc = "alloc_handle", ![c].ref = NewRef,
                          ![c].calls = << Call("FPDF_LoadMemDocument", 0, -1, 0, NewRef) >>]
          /\ UNCHANGED <<calls, result>>
    /\ UNCHANGED <<handles, next_handle, doc_data, issued, closed, library>>

\* alloc_handle: let handle = self.next_handle;
alloc_handle_read(c) ==
    /\ inner[c].pc = "alloc_handle"
    /\ inner' = [inner EXCEPT ![c].pc = "alloc_handle_add", ![c].handle = next_handle]
    /\ UNCHANGED <<handles, next_handle, doc_data, native, calls, result, issued, closed, library>>

\* alloc_handle: self.next_handle += 1;
alloc_handle_add(c) ==
    /\ inner[c].pc = "alloc_handle_add"
    /\ next_handle' = next_handle + 1
    /\ inner' = [inner EXCEPT ![c].pc = "alloc_handle_insert"]
    /\ UNCHANGED <<handles, doc_data, native, calls, result, issued, closed, library>>

\* alloc_handle: self.handles.insert(handle, entry); handle
alloc_handle_insert(c) ==
    /\ inner[c].pc = "alloc_handle_insert"
    /\ handles' = HandlesInsert(inner[c].handle, [kind |-> "Document", ref |-> inner[c].ref])
    /\ issued' = Append(issued, [handle |-> inner[c].handle, kind |-> "Document",
                                 ref |-> inner[c].ref, via |-> "load_document"])
    /\ inner' = [inner EXCEPT ![c].pc = "doc_data_insert"]
    /\ UNCHANGED <<next_handle, doc_data, native, calls, result, closed, library>>

\* load_document: self.doc_data.insert(handle, data_copy); Ok(handle)
load_document_return(c) ==
    /\ inner[c].pc = "doc_data_insert"
    /\ doc_data' = DocDataInsert(inner[c].handle, inner[c].ref)
    /\ calls' = inner[c].calls
    /\ result' = Ok("load_document", NoHandle, inner[c].handle)
    /\ inner' = Return(c)
    /\ UNCHANGED <<handles, next_handle, native, issued, closed, library>>

\* close_document: match self.handles.remove(&handle)
close_document_remove(c) ==
    /\ inner[c].pc = "close_document"
    /\ handles' = CloseDocumentRemove(inner[c].h)
    /\ \/ /\ IsKind(inner[c].h, "Document")
          /\ inner' = [inner EXCEPT ![c].pc = "close_document_native",
                                    ![c].ref = handles[inner[c].h].ref]
          /\ UNCHANGED <<calls, result>>
       \/ /\ Present(inner[c].h) /\ ~IsKind(inner[c].h, "Document")
          /\ calls' = NoCalls
          /\ result' = HandleErr("close_document", inner[c].h, "Handle is not a document")
          /\ inner' = Return(c)
       \/ /\ ~Present(inner[c].h)
          /\ calls' = NoCalls
          /\ result' = HandleErr("close_document", inner[c].h, "Invalid handle")
          /\ inner' = Return(c)
    /\ UNCHANGED <<next_handle, doc_data, native, issued, closed, library>>

\* close_document: unsafe { (self.close_document)(doc) };
close_document_native(c) ==
    /\ inner[c].pc = "close_document_native"
    /\ native' = NativeClose(inner[c].ref)
    /\ closed' = closed \cup {inner[c].h}
    /\ inner' = [inner EXCEPT ![c].pc = "doc_data_remove",
                    ![c].calls = << Call("FPDF_CloseDocument", inner[c].ref, -1, 0, 0) >>]
    /\ UNCHANGED <<handles, next_handle, doc_data, calls, result, issued, library>>

\* close_document: self.doc_data.remove(&handle); Ok(())
close_document_return(c) ==
    /\ inner[c].pc = "doc_data_remove"
    /\ doc_data' = DocDataRemove(inner[c].h)
    /\ calls' = Append(inner[c].calls, ReleaseBuffer(inner[c].h))
    /\ result' = Ok("close_document", inner[c].h, 0)
    /\ inner' = Return(c)
    /\ UNCHANGED <<handles, next_handle, native, issued, closed, library>>

\* get_page_count: match self.handles.get(&doc_handle)
get_page_count_get(c) ==
    /\ inner[c].pc = "get_page_count"
    /\ \/ /\ IsKind(inner[c].h, "Document")
          /\ inner' = [inner EXCEPT ![c].pc = "get_page_count_native",
                                    ![c].ref = handles[inner[c].h].ref]
          /\ UNCHANGED <<calls, result>>
       \/ /\ ~IsKind(inner[c].h, "Document")
          /\ calls' = NoCalls
          /\ result' = HandleErr("get_page_count", inner[c].h, "Invalid document handle")
          /\ inner' = Return(c)
    /\ UNCHANGED <<handles, next_handle, doc_data, native, issued, closed, library>>

\* get_page_count: Ok(unsafe { (self.get_page_count)(*doc) })
get_page_count_native(c) ==
    /\ inner[c].pc = "get_page_count_native"
    /\ calls' = << Call("FPDF_GetPageCount", inner[c].ref, -1, 0, 1) >>
    /\ result' = Ok("get_page_count", inner[c].h, 1)
    /\ inner' = Return(c)
    /\ UNCHANGED <<handles, next_handle, doc_data, native, issued, closed, library>>

NextShared ==
    \/ \E c \in Callers : CanAlloc /\ borrow_mut(c, "load_document", NoHandle)
    \/ \E c \in Callers, h \in HandleArgs : borrow_mut(c, "close_document", h)
    \/ \E c \in Callers, h \in HandleArgs : borrow(c, h)
    \/ \E c \in Callers : load_document_native(c)
    \/ \E c \in Callers : alloc_handle_read(c)
    \/ \E c \in Callers : alloc_handle_add(c)
    \/ \E c \in Callers : alloc_handle_insert(c)
    \/ \E c \in Callers : load_document_return(c)
    \/ \E c \in Callers : close_document_remove(c)
    \/ \E c \in Callers : close_document_native(c)
    \/ \E c \in Callers : close_document_return(c)
    \/ \E c \in Callers : get_page_count_get(c)
    \/ \E c \in Callers : get_page_count_native(c)

SpecShared == Init /\ [][NextShared]_vars

\* A caller is about to hand its native reference to a native function.
AtNativeCall(c) == inner[c].pc \in {"close_document_native", "get_page_count_native"}

MaxAnnots == 2

\* FS_RECTF values: the rectangle of four zeros, and another one.
ZeroRect == 0
Rects == {ZeroRect, 1}

\* What the native library answers for one annotation: whether GetAnnot
\* returns null, whether GetRect succeeds and what it writes, whether
\* GetColor succeeds.  A failed GetRect leaves the rectangle as it was.
Annots ==
    Enumerated(
        {a \in [is_null : BOOLEAN, has_rect : BOOLEAN, rect : Rects, has_colour : BOOLEAN] :
            /\ ~a.has_rect => a.rect = ZeroRect
            /\ a.is_null => ~a.has_rect /\ ~a.has_colour})

AnnotLists == UNION {[1 .. n -> Annots] : n \in 0 .. MaxAnnots}

AnnotRef(index) == index + 1

GetAnnot(page, index, is_null) ==
    [fn |-> "FPDFPage_GetAnnot", ref |-> page, buf |-> -1, cap |-> 0,
     ret |-> IF is_null THEN 0 ELSE AnnotRef(index), index |-> index]

CloseAnnot(annot) == PlainCall("FPDFPage_CloseAnnot", annot, 0)

\* The native calls of one iteration of the loop of get_annotations.
AnnotCalls(page, index, a) ==
    IF a.is_null THEN << GetAnnot(page, index, TRUE) >>
    ELSE << GetAnnot(page, index, FALSE),
            PlainCall("FPDFAnnot_GetSubtype", AnnotRef(index), 1),
            PlainCall("FPDFAnnot_GetRect", AnnotRef(index), Flag(a.has_rect)),
            PlainCall("FPDFAnnot_GetColor", AnnotRef(index), Flag(a.has_colour)),
            CloseAnnot(AnnotRef(index)) >>

\* The rectangle get_annotations reports: (0.0, 0.0, 0.0, 0.0) when GetRect
\* failed.
AnnotRect(a) == IF a.has_rect THEN a.rect ELSE ZeroRect

AnnotationInfo(index, a) ==
    [index |-> index, subtype |-> 1, rect |-> AnnotRect(a), has_colour |-> a.has_colour]

\* for i in 0..count, from index i on.
RECURSIVE AnnotLoopCalls(_, _, _)
AnnotLoopCalls(page, annots, i) ==
    IF i >= Len(annots) THEN << >>
    ELSE AnnotCalls(page, i, annots[i + 1]) \o AnnotLoopCalls(page, annots, i + 1)

RECURSIVE AnnotLoopResult(_, _)
AnnotLoopResult(annots, i) ==
    IF i >= Len(annots) THEN << >>
    ELSE IF annots[i + 1].is_null THEN AnnotLoopResult(annots, i + 1)
    ELSE << AnnotationInfo(i, annots[i + 1]) >> \o AnnotLoopResult(annots, i + 1)

get_annotations(h) ==
    /\ \/ /\ ~IsKind(h, "Page")
          /\ calls' = NoCalls
          /\ result' = HandleErr("get_annotations", h, "Invalid page handle")
       \/ /\ IsKind(h, "Page")
          /\ \E count \in {-1, 0} :
                /\ calls' = << PlainCall("FPDFPage_GetAnnotCount", handles[h].ref, count) >>
                /\ result' = Ok("get_annotations", h, << >>)
       \/ /\ IsKind(h, "Page")
          /\ \E annots \in AnnotLists :
                /\ Len(annots) > 0
                /\ calls' = << PlainCall("FPDFPage_GetAnnotCount", handles[h].ref, Len(annots)) >>
                               \o AnnotLoopCalls(handles[h].ref, annots, 0)
                /\ result' = Ok("get_annotations", h, AnnotLoopResult(annots, 0))
    /\ Frame

\* The annotation create_annotation makes is the last one of the page.
create_annotation(h) ==
    /\ \/ /\ ~IsKind(h, "Page")
          /\ calls' = NoCalls
          /\ result' = HandleErr("create_annotation", h, "Invalid page handle")
       \/ /\ IsKind(h, "Page")
          /\ calls' = << PlainCall("FPDFPage_CreateAnnot", handles[h].ref, 0) >>
          /\ result' = Err("create_annotation", h, "Failed to create annotation")
       \/ /\ IsKind(h, "Page")
          /\ \E count \in 1 .. MaxAnnots :
                /\ calls' = << PlainCall("FPDFPage_CreateAnnot", handles[h].ref, AnnotRef(count - 1)),
                               CloseAnnot(AnnotRef(count - 1)),
                               PlainCall("FPDFPage_GetAnnotCount", handles[h].ref, count) >>
                /\ result' = Ok("create_annotation", h, count - 1)
    /\ Frame

AnnotIndexArgs == 0 .. MaxAnnots - 1

get_annotation_flags(h, index) ==
    /\ \/ /\ ~IsKind(h, "Page")
          /\ calls' = NoCalls
          /\ result' = HandleErr("get_annotation_flags", h, "Invalid page handle")
       \/ /\ IsKind(h, "Page")
          /\ calls' = << GetAnnot(handles[h].ref, index, TRUE) >>
          /\ result' = Err("get_annotation_flags", h, "Failed to get annotation at index")
       \/ /\ IsKind(h, "Page")
          /\ \E flags \in {0, 4} :
                /\ calls' = << GetAnnot(handles[h].ref, index, FALSE),
                               PlainCall("FPDFAnnot_GetFlags", AnnotRef(index), flags),
                               CloseAnnot(AnnotRef(index)) >>
                /\ result' = Ok("get_annotation_flags", h, flags)
    /\ Frame

\* The setters that pass their arguments to the native function as they are:
\* the operation and the native function it calls.
PlainSetters ==
    {<<"set_annotation_rect", "FPDFAnnot_SetRect">>,
     <<"set_annotation_colour", "FPDFAnnot_SetColor">>,
     <<"set_annotation_flags", "FPDFAnnot_SetFlags">>,
     <<"set_annotation_border", "FPDFAnnot_SetBorder">>,
     <<"set_annotation_attachment_points", "FPDFAnnot_SetAttachmentPoints">>,
     <<"append_annotation_attachment_points", "FPDFAnnot_AppendAttachmentPoints">>}

\* The body the setters share once the annotation is open: the native setter,
\* the close, Ok(ok != 0).
SetAnnotCalls(page, index, fn, ok) ==
    << GetAnnot(page, index, FALSE),
       PlainCall(fn, AnnotRef(index), ok),
       CloseAnnot(AnnotRef(index)) >>

set_annotation(h, index, setter) ==
    /\ \/ /\ ~IsKind(h, "Page")
          /\ calls' = NoCalls
          /\ result' = HandleErr(setter[1], h, "Invalid page handle")
       \/ /\ IsKind(h, "Page")
          /\ calls' = << GetAnnot(handles[h].ref, index, TRUE) >>
          /\ result' = Ok(setter[1], h, 0)
       \/ /\ IsKind(h, "Page")
          /\ \E ok \in {0, 1} :
                /\ calls' = SetAnnotCalls(handles[h].ref, index, setter[2], ok)
                /\ result' = Ok(setter[1], h, ok)
    /\ Frame

\* Strings a caller passes as a key or a URI: CString::new fails on an
\* interior NUL.
CStringArgs == {"Contents", "interior_nul"}

\* The setters that convert a string after the annotation is open: the
\* operation, its native function, and its conversion error.
CStringSetters ==
    {<<"set_annotation_string_value", "FPDFAnnot_SetStringValue", "Invalid key">>,
     <<"set_annotation_uri", "FPDFAnnot_SetURI", "Invalid URI">>}

\* The calls made before CString::new(..)? returns the error.
CStringErrCalls(page, index) == << GetAnnot(page, index, FALSE) >>

set_annotation_cstring(h, index, setter, text) ==
    /\ \/ /\ ~IsKind(h, "Page")
          /\ calls' = NoCalls
          /\ result' = HandleErr(setter[1], h, "Invalid page handle")
       \/ /\ IsKind(h, "Page")
          /\ calls' = << GetAnnot(handles[h].ref, index, TRUE) >>
          /\ result' = Ok(setter[1], h, 0)
       \/ /\ IsKind(h, "Page")
          /\ text = "interior_nul"
          /\ calls' = CStringErrCalls(handles[h].ref, index)
          /\ result' = Err(setter[1], h, setter[3])
       \/ /\ IsKind(h, "Page")
          /\ text # "interior_nul"
          /\ \E ok \in {0, 1} :
                /\ calls' = SetAnnotCalls(handles[h].ref, index, setter[2], ok)
                /\ result' = Ok(setter[1], h, ok)
    /\ Frame

NextAnnot ==
    \/ \E pw \in Passwords : load_document(pw)
    \/ \E h \in HandleArgs : load_page(h)
    \/ AfterOpen /\ \E h \in HandleArgs : get_annotations(h)
    \/ AfterOpen /\ \E h \in HandleArgs : create_annotation(h)
    \/ AfterOpen /\ \E h \in HandleArgs, index \in AnnotIndexArgs :
                        get_annotation_flags(h, index)
    \/ AfterOpen /\ \E h \in HandleArgs, index \in AnnotIndexArgs, setter \in PlainSetters :
                        set_annotation(h, index, setter)
    \/ AfterOpen /\ \E h \in HandleArgs, index \in AnnotIndexArgs,
                       setter \in CStringSetters, text \in CStringArgs :
                        set_annotation_cstring(h, index, setter, text)

SpecAnnot == Init /\ [][NextAnnot]_vars

\* The place in the call log of the native call that read the rectangle of
\* the annotation with this index.
RectCallOf(index) ==
    {i \in DOMAIN calls :
        calls[i].fn = "FPDFAnnot_GetRect" /\ calls[i].ref = AnnotRef(index)}

\* C23: when a native call signals failure, the operation reports an error or
\* an explicit absent value and never a made-up one: every annotation that
\* get_annotations returns although FPDFAnnot_GetRect failed for it carries no
\* rectangle a successful read could have produced.
C23_FailureNeverReplaced ==
    result.op = "get_annotations" /\ result.status = "ok" =>
        \A k \in DOMAIN result.value :
            \A i \in RectCallOf(result.value[k].index) :
                calls[i].ret = 0 => result.value[k].rect \notin Rects

\* The operations that open an annotation, and the calls that open one.
AnnotOps ==
    {"get_annotations", "create_annotation", "get_annotation_flags"}
        \cup {setter[1] : setter \in PlainSetters \cup CStringSetters}

OpensAnnot(call) ==
    call.fn \in {"FPDFPage_GetAnnot", "FPDFPage_CreateAnnot"} /\ call.ret # 0

\* The closes of the annotation opened at place i of the call log.
ClosesOf(i) ==
    {j \in DOMAIN calls :
        calls[j].fn = "FPDFPage_CloseAnnot" /\ calls[j].ref = calls[i].ret}

\* C27: an operation that opened an annotation has closed it exactly once,
\* after opening it, when it returns, whether it returns a value or an error.
C27_AnnotationClosedOnEveryPath ==
    result.op \in AnnotOps =>
        \A i \in DOMAIN calls :
            OpensAnnot(calls[i]) =>
                /\ Cardinality(ClosesOf(i)) = 1
                /\ \A j \in ClosesOf(i) : j > i

\* ---------------------------------------------------------------------------
\* render_page.  width and height are i32; `width * 4` and `stride * height`
\* are i32 multiplications, which panic on overflow in a build with overflow
\* checks and wrap around in a build without them.
MaxI32 == 2147483647
MinI32 == -MaxI32 - 1

\* x + y in two's complement, computed without leaving the i32 range.
WrappingAdd(x, y) ==
    IF y > 0 /\ x > MaxI32 - y THEN (x + MinI32) + (y + MinI32)
    ELSE IF y < 0 /\ x < MinI32 - y THEN (x - MinI32) + (y - MinI32)
    ELSE x + y

WrappingNeg(x) == IF x = MinI32 THEN MinI32 ELSE -x

\* a * b in two's complement for b >= 0, by doubling.
RECURSIVE WrappingMulBy(_, _)
WrappingMulBy(a, b) ==
    IF b = 0 THEN 0
    ELSE IF b % 2 = 1
         THEN WrappingAdd(WrappingMulBy(WrappingAdd(a, a), b \div 2), a)
         ELSE WrappingMulBy(WrappingAdd(a, a), b \div 2)

WrappingMul(a, b) ==
    IF b >= 0 THEN WrappingMulBy(a, b)
    ELSE IF b = MinI32 THEN (IF a % 2 = 1 THEN MinI32 ELSE 0)
    ELSE WrappingMulBy(WrappingNeg(a), -b)

\* Whether the product of a and b lies outside the i32 range.
Magnitude(x) == IF x < 0 THEN -x ELSE x

MulOverflows(a, b) ==
    IF a = 0 \/ b = 0 THEN FALSE
    ELSE IF a = MinI32 THEN b # 1
    ELSE IF b = MinI32 THEN a # 1
    ELSE LET x == Magnitude(a)
             y == Magnitude(b)
             most == MaxI32 \div y
         IN IF (a < 0) = (b < 0) THEN x > most
            ELSE IF MaxI32 % y = y - 1 THEN x - 1 > most ELSE x > most

\* let stride = width * 4; let buf_size = (stride * height) as usize;
Stride(width) == WrappingMul(width, 4)

BufSize(width, height) == WrappingMul(Stride(width), height)

SizeOverflows(width, height) ==
    MulOverflows(width, 4) \/ MulOverflows(Stride(width), height)

\* Dimensions a caller passes: small ones, a negative one, and 2^30, whose
\* stride is 2^32.
Dimensions == {-1, 0, 1, 2, 1073741824}

\* The four bytes the rasterizer writes for a pixel, and the buffer of n bytes
\* after it has drawn: the first byte of each pixel also tells the pixels
\* apart.
PixelPatterns == {<<1, 2, 3, 4>>, <<200, 0, 100, 255>>}

Rendered(n, pat) ==
    [i \in 1 .. n |-> IF i % 4 = 1 THEN pat[1] + (i \div 4) ELSE pat[((i - 1) % 4) + 1]]

\* for i in (0..buf_size).step_by(4) { pixel_buf.swap(i, i + 2) }
SwapPixels_FirstAndSecond(buf) ==
    [i \in 1 .. Len(buf) |->
        IF i % 4 = 1 THEN buf[i + 1] ELSE IF i % 4 = 2 THEN buf[i - 1] ELSE buf[i]]

SwapPixels(buf) ==
    [i \in 1 .. Len(buf) |->
        IF i % 4 = 1 THEN buf[i + 2] ELSE IF i % 4 = 3 THEN buf[i - 2] ELSE buf[i]]

\* FPDFBitmap_CreateEx(width, height, 4, pixel_buf.as_mut_ptr(), stride)
BitmapCreateEx(width, height, bitmap) ==
    [fn |-> "FPDFBitmap_CreateEx", ref |-> 0, buf |-> BufSize(width, height),
     cap |-> Stride(width), ret |-> bitmap, width |-> width, height |-> height]

\* The native calls of a render once the view exists, with the bytes the
\* buffer holds after the rasterizer ran, and the swap loop after them.
RenderCalls(page, width, height, bitmap, written) ==
    << BitmapCreateEx(width, height, bitmap),
       PlainCall("FPDFBitmap_FillRect", bitmap, 0),
       [fn |-> "FPDF_RenderPageBitmap", ref |-> bitmap, buf |-> -1, cap |-> 0, ret |-> 0,
        page |-> page, written |-> written],
       PlainCall("FPDFBitmap_Destroy", bitmap, 0),
       PlainCall("pixel_buf.swap", 0, 0) >>

\* The result of a render, with the dimensions it was asked for.
Sized(r, width, height) ==
    [op |-> r.op, handle |-> r.handle, status |-> r.status, err |-> r.err,
     code |-> r.code, value |-> r.value, cause |-> r.cause,
     width |-> width, height |-> height]

\* The view the native library was given reaches past the end of the buffer.
ViewExceedsBuffer(width, height) ==
    width > 0 /\ height > 0 /\ SizeOverflows(width, height)

render_page(h, width, height) ==
    /\ \/ /\ ~IsKind(h, "Page")
          /\ calls' = NoCalls
          /\ result' = Sized(HandleErr("render_page", h, "Invalid page handle"), width, height)
       \/ /\ IsKind(h, "Page")
          /\ SizeOverflows(width, height)
          /\ calls' = NoCalls
          /\ result' = Sized(Abort("render_page", h), width, height)
       \/ /\ IsKind(h, "Page")
          /\ BufSize(width, height) < 0
          /\ calls' = NoCalls
          /\ result' = Sized(Abort("render_page", h), width, height)
       \/ /\ IsKind(h, "Page")
          /\ BufSize(width, height) >= 0
          /\ calls' = << BitmapCreateEx(width, height, 0) >>
          /\ result' = Sized(Err("render_page", h, "Failed to create bitmap"), width, height)
       \/ /\ IsKind(h, "Page")
          /\ BufSize(width, height) >= 0
          /\ \E pat \in PixelPatterns :
                LET written == Rendered(BufSize(width, height), pat)
                IN /\ calls' = RenderCalls(handles[h].ref, width, height, 1, written)
                   /\ \/ result' = Sized(Ok("render_page", h, SwapPixels(written)), width, height)
                      \/ /\ ViewExceedsBuffer(width, height)
                         /\ result' = Sized(Abort("render_page", h), width, height)
    /\ Frame

NextRender ==
    \/ \E pw \in Passwords : load_document(pw)
    \/ \E h \in HandleArgs : load_page(h)
    \/ AfterOpen /\ \E h \in HandleArgs, width \in Dimensions, height \in Dimensions :
                        render_page(h, width, height)

SpecRender == Init /\ [][NextRender]_vars

\* n is the product width * height * 4 of the integers, not of i32.
IsProduct(n, width, height) ==
    /\ ~MulOverflows(width, height)
    /\ ~MulOverflows(width * height, 4)
    /\ n = width * height * 4

RenderFns == << "FPDFBitmap_CreateEx", "FPDFBitmap_FillRect", "FPDF_RenderPageBitmap",
                "FPDFBitmap_Destroy", "pixel_buf.swap" >>

\* (width * height * 4) as the test of render_page computes it, in i32.
I32Product(width, height) == WrappingMul(WrappingMul(width, height), 4)

C30_BufferSizeExact ==
    result.op = "render_page" =>
        /\ result.status # "abort"
        /\ \/ calls # NoCalls /\ IsProduct(calls[1].buf, result.width, result.height)
           \/ calls = NoCalls /\ result.status = "err"

\* ---------------------------------------------------------------------------
\* The first n UTF-16 units of a zeroed buffer of n + 1 units into which the
\* native function wrote `written` units after pattern pat.
FirstUnits(n, written, pat) ==
    [i \in 1 .. n |->
        IF i <= written THEN U16Units(Written(pat, 2 * written), written)[i] ELSE 0]

\* C25: get_full_text asks for the character count first; for a count <= 0
\* it returns the empty string and makes no other call; for a count n > 0 it
\* makes one FPDFText_GetText call with a buffer of n + 1 units and a count
\* of n, and returns the decoding of the first n units of the buffer, or a
\* decode error when they are not valid UTF-16.
C25_FullTextDecodesCountUnits ==
    result.op = "get_full_text" /\ IsKind(result.handle, "TextPage") =>
        /\ Len(calls) >= 1
        /\ calls[1].fn = "FPDFText_CountChars"
        /\ calls[1].ref = handles[result.handle].ref
        /\ calls[1].ret <= 0 =>
              /\ Len(calls) = 1
              /\ result.status = "ok"
              /\ result.value = << >>
        /\ calls[1].ret > 0 =>
              /\ Len(calls) = 2
              /\ calls[2].fn = "FPDFText_GetText"
              /\ calls[2].buf = 2 * (calls[1].ret + 1)
              /\ calls[2].cap = calls[1].ret
              /\ \E pat \in Patterns :
                    LET text == from_utf16(FirstUnits(calls[1].ret, calls[2].ret, pat))
                    IN IF text.ok
                       THEN result.status = "ok" /\ result.value = text.text
                       ELSE result.status = "err" /\ result.err = "UTF-16 decode error"

\* Two characters were read from a buffer of three units that the native
\* function filled, terminator included.
C25_Witness ==
    /\ result.op = "get_full_text"
    /\ result.status = "ok"
    /\ Len(calls) = 2
    /\ calls[1].ret = 2
    /\ calls[2].ret = 3
    /\ Len(result.value) = 2

\* ---------------------------------------------------------------------------
\* The counter at the end of its range.  A u32 of 2^31 or more is written
\* here as its 32 bits read as a two's-complement integer (v - 2^32), so the
\* largest u32 is -1, the one before it -2, and adding 1 to the largest gives
\* 0 as the wrapping addition of the program does.
U32Max == -1

\* The bridge after 2^32 - 3 opens, of which only the first, a document, has
\* not been closed: the counter stands at 2^32 - 2.  The histories start here.
InitLate ==
    /\ handles = << [kind |-> "Document", ref |-> 1] >>
    /\ next_handle = U32Max - 1
    /\ doc_data = << 1 >>
    /\ native = << NativeObj("Document", 0, 1) >>
    /\ calls = NoCalls
    /\ result = Ok("close_document", U32Max - 2, 0)
    /\ issued = << >>
    /\ closed = {}
    /\ library = Library(TRUE)
    /\ inner = NoCaller

\* self.next_handle += 1 at the largest value, in a build with overflow
\* checks: alloc_handle panics after the native document was loaded, and
\* nothing is stored.  The model stops loading when MaxHandle + 3 native
\* objects exist.
load_document_overflow(pw) ==
    /\ pw # "interior_nul"
    /\ next_handle = U32Max
    /\ NewRef <= MaxHandle + 3
    /\ calls' = << Call("FPDF_LoadMemDocument", 0, -1, 0, NewRef) >>
    /\ native' = NativeCreate("Document", 0, DataCopy)
    /\ result' = Abort("load_document", NoHandle)
    /\ UNCHANGED <<handles, next_handle, doc_data, issued, closed, library, inner>>

\* Handle values a caller passes around the end of the range.
LateHandleArgs == (U32Max - 1) .. 2

NextLate ==
    \/ \E pw \in Passwords : load_document(pw)
    \/ \E pw \in Passwords : load_document_overflow(pw)
    \/ \E h \in LateHandleArgs : close_document(h)
    \/ \E h \in LateHandleArgs : get_page_count(h)

SpecLate == InitLate /\ [][NextLate]_vars

\* b is a + 1 as integers, both taken as u32.
IsSuccessor(b, a) == a # U32Max /\ b = a + 1

OpenOps == {"load_document", "load_page", "load_text_page", "import_n_pages_to_one"}

\* C26: handles are issued as 1, 2, 3, ...: 0 is never issued and never a key
\* of the table, every issued value is one more than the one issued before
\* it, no allocation fails, and an entry that is in the table is never
\* replaced by an allocation, however many handles have been issued.
C26_HandlesCountUpForever ==
    /\ [](/\ 0 \notin DOMAIN handles
          /\ \A i \in 1 .. Len(issued) : issued[i].handle # 0
          /\ \A i \in 2 .. Len(issued) : IsSuccessor(issued[i].handle, issued[i - 1].handle)
          /\ result.op \in OpenOps => result.status # "abort")
    /\ [][\A h \in DOMAIN handles : h \in DOMAIN handles' => handles'[h] = handles[h]]_vars

\* ================================================== failed open operations
\* C28: an open operation that fails (unknown or wrong-kind parent handle,
\* unconvertible password, null native result) issues no handle: the handle
\* table, the retained buffers and the next-handle counter are unchanged; and
\* an open that succeeds returns the counter's value, so a failed call between
\* two successful ones does not change what the second returns.
C28_FailedOpenIssuesNothing ==
    [][/\ (result'.op \in OpenOps /\ result'.status = "err")
            => UNCHANGED <<handles, doc_data, next_handle, issued>>
       /\ (result'.op \in OpenOps /\ result'.status = "ok" /\ result' # result)
            => /\ result'.value = next_handle
               /\ Len(issued') = Len(issued) + 1]_vars

\* A null N-up document after one document was opened: the counter still
\* stands right behind the last handle issued.
C28_Witness ==
    /\ result.op = "import_n_pages_to_one"
    /\ result.status = "err"
    /\ result.cause = ""
    /\ Len(issued) > 0
    /\ next_handle = issued[Len(issued)].handle + 1
    /\ DOMAIN doc_data \subseteq DOMAIN handles

\* ================================================= native close discipline
\* The native close function of each kind of HandleEntry.
CloseFn(kind) ==
    CASE kind = "Document" -> "FPDF_CloseDocument"
      [] kind = "Page" -> "FPDF_ClosePage"
      [] kind = "TextPage" -> "FPDFText_ClosePage"

CloseFns == {CloseFn(k) : k \in {"Document", "Page", "TextPage"}}

\* The positions of the log at which a native function receives a native
\* reference (dropping a retained buffer is no native call; 0 is no reference).
PassesRef(cs) == {i \in 1 .. Len(cs) : cs[i].fn # "doc_data.remove" /\ cs[i].ref # 0}

\* C29: every native reference an operation passes to a native function is,
\* when the operation starts, stored in the table under a handle and not yet
\* closed; a native close function receives only a reference of its own kind
\* and receives it once.  So no reference is closed twice, closed with the
\* wrong function, or used after its own handle was removed.
C29_NativeCloseDiscipline ==
    [][\A i \in PassesRef(calls') :
          /\ \E h \in DOMAIN handles : handles[h].ref = calls'[i].ref
          /\ calls'[i].ref \in DOMAIN native
          /\ native[calls'[i].ref].open
          /\ calls'[i].fn \in CloseFns =>
               /\ calls'[i].fn = CloseFn(native[calls'[i].ref].kind)
               /\ ~native'[calls'[i].ref].open
               /\ \A j \in PassesRef(calls') : calls'[j].ref = calls'[i].ref => j = i
               /\ \A h \in DOMAIN handles' : handles'[h].ref # calls'[i].ref]_vars

\* A page was closed and its handle was then given to get_page_width, which
\* made no native call.
C29_Witness ==
    /\ result.op = "get_page_width"
    /\ result.cause = "not_found"
    /\ result.handle \in closed
    /\ calls = NoCalls
    /\ \E r \in DOMAIN native : native[r].kind = "Page" /\ ~native[r].open

====
